---- MODULE Spec2Model ----
(***************************************************************************)
(* Verification model of sqlalchemy/sql/util.py: the ClauseAdapter /       *)
(* ColumnAdapter column rewriting machinery, the equivalence resolution of *)
(* ClauseAdapter._corresponding_column, reduce_columns, and the join and   *)
(* expression helpers (criterion_as_pairs, find_join_source, ...).         *)
(*                                                                         *)
(* Objects are pairs <<kind, index>>; object identity (Python "is") is     *)
(* equality of pairs.                                                      *)
(***************************************************************************)
EXTENDS Integers, Sequences, FiniteSets, TLC

VARIABLES
    ad,      \* adapter objects: 1 is the adapter in use, 2 the adapter given to wrap()
    memo,    \* memo[i]: the WeakPopulateDict "columns" of adapter i (key -> value)
    heap,    \* children of the expression objects (base expression and clones)
    alr,     \* the _allow_label_resolve attribute of every object
    alive,   \* expression objects not yet garbage collected
    last,    \* the last call made on the adapter: [op, arg, ret]
    cc,      \* _corresponding_column run step by step: call stack and trace
    rc,      \* reduce_columns: its input and its outcome
    call     \* a call of one of the module's other functions: arguments and outcome

vars == <<ad, memo, heap, alr, alive, last, cc, rc, call>>

(***************************************************************************)
(* Bounds.                                                                 *)
(***************************************************************************)
MaxOptions == 3   \* adapter options that differ from their defaults
MaxMemo    == 2   \* distinct keys looked up in one adapter's memo
MaxClones  == 2   \* expression clones a run may allocate
MaxEquivs  == 3   \* (column, equivalent) pairs in an equivalence map
MaxCols    == 3   \* length of the column list handed to reduce_columns

(***************************************************************************)
(* The objects.                                                            *)
(***************************************************************************)
None   == <<"None", 0>>      \* Python None
Absent == <<"Absent", 0>>    \* no entry in a dict

S1 == <<"src", 1>>           \* columns of the table being adapted away from
S2 == <<"src", 2>>
SrcCols == {S1, S2}
NullConst == <<"null", 0>>   \* the NULL singleton constant (also stands for TRUE/FALSE)
A1 == <<"selA", 1>>          \* exported column of the adapter's target selectable
B1 == <<"selB", 1>>          \* exported column of the wrapped adapter's selectable
TgtA == {A1}
TgtB == {B1}
ImmCols == SrcCols \cup {NullConst} \cup TgtA \cup TgtB   \* Immutable column objects

E0 == <<"expr", 0>>          \* a non-immutable expression, e.g. (S1 IS NULL)
Clones == {<<"expr", i>> : i \in 1..MaxClones}
Exprs == {E0} \cup Clones
E0Children == <<S1, NullConst>>

T0 == <<"from", 0>>          \* the table the target selectables derive from
X0 == <<"from", 1>>          \* an alias of another table
J0 == <<"from", 2>>          \* some other selectable (a join)
SA == <<"from", 3>>          \* the adapter's target selectable, an alias of T0
SB == <<"from", 4>>          \* the wrapped adapter's target, another alias of T0
Froms == {T0, X0, J0, SA, SB}

Objects == ImmCols \cup Exprs \cup Froms

_is_immutable(o) == o \in ImmCols \cup {T0}   \* Column, Null, TableClause
_is_singleton_constant(o) == o = NullConst
IsFromClause(o) == o \in Froms
IsColumnElement(o) == o \in ImmCols \cup Exprs
IsAliasOfTable(o) == o \in {X0, SA, SB}

\* col.name: source and target columns carry their index as name; constants
\* and expressions carry a name no selectable exports.
Name(o) == IF o[1] \in {"src", "selA", "selB"} THEN o[2] ELSE 0

Min(S) == CHOOSE x \in S : \A y \in S : x <= y

(***************************************************************************)
(* The collaborators of the adapter that live outside util.py.             *)
(***************************************************************************)
\* Selectable.corresponding_column(col, require_embedded=True): a column the
\* selectable exports is its own counterpart; any other immutable column has
\* the counterpart the schema gives it (a.corr); an expression has none.
corresponding_column(a, col) ==
    IF col \in a.exported THEN col
    ELSE IF col \in DOMAIN a.corr THEN a.corr[col]
    ELSE None

\* selectable.exported_columns.get(name)
exported_columns_get(a, n) ==
    IF \E t \in a.exported : Name(t) = n
    THEN CHOOSE t \in a.exported : Name(t) = n
    ELSE None

\* FromClause.is_derived_from: both target selectables derive from T0.
is_derived_from(sel, f) == f = sel \/ (sel \in {SA, SB} /\ f = T0)

\* adp.c.corresponding_column(col, False) for a member of
\* adapt_from_selectables: T0 holds the source columns.
from_corresponding_column(adp, col) ==
    IF adp = T0 /\ col \in SrcCols THEN col ELSE None

(***************************************************************************)
(* ClauseAdapter.                                                          *)
(***************************************************************************)
RECURSIVE _corresponding_column(_, _, _)
_corresponding_column(a, col, _seen) ==
    LET newcol == corresponding_column(a, col)
        eq == IF newcol = None /\ col \in DOMAIN a.equivalents /\ col \notin _seen
              THEN a.equivalents[col] ELSE <<>>
        rs == [i \in 1..Len(eq) |->
                  _corresponding_column(a, eq[i], _seen \cup {col})]
        hits == {i \in 1..Len(eq) : rs[i] # None}
    IN  IF hits # {} THEN rs[Min(hits)]
        ELSE IF a.adapt_on_names /\ newcol = None
             THEN exported_columns_get(a, Name(col))
             ELSE newcol

include_fn(a, col) == col \notin a.include_fn.rejects
exclude_fn(a, col) == col \in a.exclude_fn.rejects

\* mutant: the singleton-constant test is missing
replace_no_singleton_test(a, col, _include_singleton_constants) ==
    IF IsFromClause(col)
    THEN IF is_derived_from(a.selectable, col)
         THEN IF a.adapt_from_selectables # {}
                 /\ ~\E adp \in a.adapt_from_selectables : is_derived_from(adp, col)
              THEN None
              ELSE a.selectable
         ELSE IF IsAliasOfTable(col) THEN col ELSE None
    ELSE IF ~IsColumnElement(col) THEN None
    ELSE IF a.adapt_from_selectables # {} /\ col \notin DOMAIN a.equivalents
            /\ \A adp \in a.adapt_from_selectables :
                   from_corresponding_column(adp, col) = None
         THEN None
    ELSE IF a.include_fn.given /\ ~include_fn(a, col) THEN None
    ELSE IF a.exclude_fn.given /\ exclude_fn(a, col) THEN None
    ELSE _corresponding_column(a, col, {})

replace(a, col, _include_singleton_constants) ==
    IF IsFromClause(col)
    THEN IF is_derived_from(a.selectable, col)
         THEN IF a.adapt_from_selectables # {}
                 /\ ~\E adp \in a.adapt_from_selectables : is_derived_from(adp, col)
              THEN None
              ELSE a.selectable
         ELSE IF IsAliasOfTable(col) THEN col ELSE None
    ELSE IF ~IsColumnElement(col) THEN None
    ELSE IF ~_include_singleton_constants /\ _is_singleton_constant(col) THEN None
    ELSE IF a.adapt_from_selectables # {} /\ col \notin DOMAIN a.equivalents
            /\ \A adp \in a.adapt_from_selectables :
                   from_corresponding_column(adp, col) = None
         THEN None
    ELSE IF a.include_fn.given /\ ~include_fn(a, col) THEN None
    ELSE IF a.exclude_fn.given /\ exclude_fn(a, col) THEN None
    ELSE _corresponding_column(a, col, {})

(***************************************************************************)
(* The part of the heap an adapter call can touch: st = [heap, alr, alive, *)
(* ok].  ok turns FALSE when a call needs more clones than MaxClones.      *)
(***************************************************************************)
Allocated(st) == {k \in Clones : st.heap[k] # <<>>}
FreshClone(st) == <<"expr", Cardinality(Allocated(st)) + 1>>

\* ClauseAdapter.traverse(self, obj), i.e. visitors.replacement_traverse with
\* self.replace: an element replace() answers for is substituted; any other
\* non-immutable element is cloned and its children are processed the same
\* way (an Immutable child's _clone() is the child itself).
ClauseAdapter_traverse(a, obj, st) ==
    LET r == replace(a, obj, FALSE)
        k == FreshClone(st)
        kids == [i \in 1..Len(st.heap[obj]) |->
                    LET ch == st.heap[obj][i]
                        rr == replace(a, ch, FALSE)
                    IN  IF rr # None THEN rr ELSE ch]
    IN  IF r # None THEN [c |-> r, st |-> st]
        ELSE IF k \notin Clones THEN [c |-> obj, st |-> [st EXCEPT !.ok = FALSE]]
        ELSE [c |-> k,
              st |-> [st EXCEPT !.heap[k] = kids,
                                !.alr[k] = st.alr[obj],
                                !.alive = @ \cup {k}]]

(***************************************************************************)
(* ColumnAdapter.                                                          *)
(***************************************************************************)
RECURSIVE _locate_col(_, _, _)

\* _locate_col, first part: the adapter's own answer.  For an Immutable the
\* visitor's replace(col, _include_singleton_constants=True), else c = col;
\* for anything else the clone traversal.
_locate_col_own(a, col, st) ==
    IF _is_immutable(col)
    THEN LET c == replace(a, col, TRUE)
         IN  [c |-> IF c # None THEN c ELSE col, st |-> st]
    ELSE ClauseAdapter_traverse(a, col, st)

\* c2 = self._wrap._locate_col(c); if c2 is not None: c = c2
_locate_col_c2(r1, w) == [c |-> IF w.c # None THEN w.c ELSE r1.c, st |-> w.st]

\* mutant: the wrapped adapter is skipped once the adapter's own replace()
\* answered (the visitor chain's "stop at the first non-None" behaviour)
_locate_col_wrap_stop_at_first(a, col, r1) ==
    IF a._wrap # 0 /\ r1.c = col
    THEN _locate_col_c2(r1, _locate_col(a._wrap, r1.c, r1.st))
    ELSE r1

\* _locate_col, second part: if self._wrap: ...
_locate_col_wrap(a, col, r1) ==
    IF a._wrap # 0
    THEN _locate_col_c2(r1, _locate_col(a._wrap, r1.c, r1.st))
    ELSE r1

\* mutant: "no change" is reported as None whatever adapt_required says
_locate_col_return_always_required(a, col, r2) ==
    IF r2.c = col THEN [c |-> None, st |-> r2.st]
    ELSE [c |-> r2.c,
          st |-> [r2.st EXCEPT !.alr[r2.c] = a.allow_label_resolve]]

\* mutant: adapt_required is never consulted
_locate_col_return_never_required(a, col, r2) ==
    IF r2.c # col
    THEN [c |-> r2.c,
          st |-> [r2.st EXCEPT !.alr[r2.c] = a.allow_label_resolve]]
    ELSE r2

\* mutant: _allow_label_resolve is set on whatever object is returned, the
\* incoming one included
_locate_col_return_sets_incoming(a, col, r2) ==
    IF a.adapt_required /\ r2.c = col THEN [c |-> None, st |-> r2.st]
    ELSE [c |-> r2.c,
          st |-> [r2.st EXCEPT !.alr[r2.c] = a.allow_label_resolve]]

\* _locate_col, last part: adapt_required turns "no change" into None, and a
\* new object gets the adapter's allow_label_resolve
_locate_col_return(a, col, r2) ==
    IF a.adapt_required /\ r2.c = col THEN [c |-> None, st |-> r2.st]
    ELSE IF r2.c # col
         THEN [c |-> r2.c,
               st |-> [r2.st EXCEPT !.alr[r2.c] = a.allow_label_resolve]]
         ELSE r2

_locate_col(i, col, st) ==
    _locate_col_return(ad[i], col,
        _locate_col_wrap(ad[i], col, _locate_col_own(ad[i], col, st)))

\* the test of _IncludeExcludeMapping.__getitem__
Vetoed(a, key) ==
    \/ (a.include_fn.given /\ ~include_fn(a, key))
    \/ (a.exclude_fn.given /\ exclude_fn(a, key))

RECURSIVE columns_getitem(_, _, _, _)

\* mutant: the dict calls its creator on every lookup
columns_getitem_no_memo(i, key, m, st) ==
    LET a == ad[i] IN
    IF (a.include_fn.given \/ a.exclude_fn.given) /\ Vetoed(a, key)
    THEN IF a._wrap # 0
         THEN columns_getitem(a._wrap, key, m, st)
         ELSE [ret |-> key, memo |-> m, st |-> st]
    ELSE LET r == _locate_col(i, key, st)
         IN  [ret |-> r.c, memo |-> [m EXCEPT ![i][key] = r.c], st |-> r.st]

\* self.columns[key]: the WeakPopulateDict over _locate_col, behind the
\* _IncludeExcludeMapping when include_fn or exclude_fn is given.
columns_getitem(i, key, m, st) ==
    LET a == ad[i] IN
    IF (a.include_fn.given \/ a.exclude_fn.given) /\ Vetoed(a, key)
    THEN IF a._wrap # 0
         THEN columns_getitem(a._wrap, key, m, st)
         ELSE [ret |-> key, memo |-> m, st |-> st]
    ELSE IF m[i][key] # Absent
         THEN [ret |-> m[i][key], memo |-> m, st |-> st]
         ELSE LET r == _locate_col(i, key, st)
              IN  [ret |-> r.c, memo |-> [m EXCEPT ![i][key] = r.c], st |-> r.st]

adapt_check_present(i, col, m, st) ==
    LET g == columns_getitem(i, col, m, st)
    IN  IF g.ret = col /\ _corresponding_column(ad[i], col, {}) = None
        THEN [g EXCEPT !.ret = None]
        ELSE g

(***************************************************************************)
(* Adapter configurations.                                                 *)
(***************************************************************************)
NoFn == [given |-> FALSE, rejects |-> {}]
FilterCols == {S1}
FnChoices == {NoFn} \cup {[given |-> TRUE, rejects |-> {c}] : c \in FilterCols}

\* duplicate-free non-empty sequences over S of length at most 2: the
\* iteration orders of the sets an equivalence map holds
OrdersOf(S) == {<<x>> : x \in S} \cup {<<p[1], p[2]>> : p \in {q \in S \X S : q[1] # q[2]}}
EquivMaps(K, V) ==
    UNION {[D -> OrdersOf(V)] : D \in SUBSET K}
EquivSize(eq) ==
    LET RECURSIVE Sum(_)
        Sum(D) == IF D = {} THEN 0
                  ELSE LET k == CHOOSE k \in D : TRUE
                       IN  Len(eq[k]) + Sum(D \ {k})
    IN  Sum(DOMAIN eq)

\* the number of options of an adapter that differ from their defaults
Options(a) ==
    Cardinality({c \in DOMAIN a.corr : a.corr[c] # None})
    + EquivSize(a.equivalents)
    + (IF a.include_fn.given THEN 1 ELSE 0)
    + (IF a.exclude_fn.given THEN 1 ELSE 0)
    + (IF a.adapt_on_names THEN 1 ELSE 0)
    + (IF a.adapt_required THEN 1 ELSE 0)
    + (IF a.allow_label_resolve THEN 0 ELSE 1)
    + (IF a.adapt_from_selectables # {} THEN 1 ELSE 0)

\* ColumnAdapter.__init__ for the adapter in use (target selectable SA)
AdaptersA ==
    {a \in [selectable : {SA}, exported : {TgtA},
            corr : [ImmCols \ TgtA -> TgtA \cup {None}],
            equivalents : EquivMaps(SrcCols, SrcCols),
            include_fn : FnChoices, exclude_fn : FnChoices,
            adapt_on_names : BOOLEAN, adapt_required : BOOLEAN,
            allow_label_resolve : BOOLEAN,
            adapt_from_selectables : {{}, {T0}},
            _wrap : {0}] : Options(a) <= MaxOptions}

\* ColumnAdapter.__init__ for the adapter handed to wrap() (target SB); only
\* the columns of WrapCols can have a counterpart in SB
WrapCols == {S1, A1}
AdaptersB ==
    [selectable : {SB}, exported : {TgtB},
     corr : {f \in [ImmCols \ TgtB -> TgtB \cup {None}] :
                \A c \in ImmCols \ (TgtB \cup WrapCols) : f[c] = None},
     equivalents : {<<>>},
     include_fn : {NoFn}, exclude_fn : {NoFn},
     adapt_on_names : {FALSE}, adapt_required : BOOLEAN,
     allow_label_resolve : {TRUE},
     adapt_from_selectables : {{}},
     _wrap : {0}]

DefaultB == CHOOSE b \in AdaptersB : Options(b) = 0

(***************************************************************************)
(* The adapter as a state machine.                                         *)
(***************************************************************************)
Keys == ImmCols \cup Exprs
EmptyMemo == [o \in Keys |-> Absent]
Populated(m) == {o \in Keys : m[o] # Absent}

IdleCC == [a |-> DefaultB, start |-> None, stack |-> <<>>, events |-> {},
           result |-> Absent, final |-> <<>>]
IdleRC == [pc |-> "idle"]
IdleCall == [pc |-> "idle"]

\* the heap and the memos before any lookup
FreshHeap ==
    /\ memo = [i \in 1..2 |-> EmptyMemo]
    /\ heap = [e \in Exprs |-> IF e = E0 THEN E0Children ELSE <<>>]
    /\ alr = [o \in Objects |-> TRUE]
    /\ alive = {E0}
    /\ last = [op |-> "init", arg |-> None, ret |-> None]

Init ==
    /\ ad \in {[i \in 1..2 |-> IF i = 1 THEN a ELSE DefaultB] : a \in AdaptersA}
    /\ FreshHeap
    /\ cc = IdleCC
    /\ rc = IdleRC
    /\ call = IdleCall

\* collected objects keep counting as keys that were looked up
Dead(st) == ({E0} \cup Allocated(st)) \ st.alive

Heap == [heap |-> heap, alr |-> alr, alive |-> alive, ok |-> TRUE]
Live == ImmCols \cup alive

Commit(op, key, outcome) ==
    \E g \in {outcome} :
        /\ g.st.ok
        /\ \A i \in 1..2 :
              Cardinality(Populated(g.memo[i]) \cup Dead(g.st)) <= MaxMemo
        /\ memo' = g.memo
        /\ heap' = g.st.heap
        /\ alr' = g.st.alr
        /\ alive' = g.st.alive
        /\ last' = [op |-> op, arg |-> key, ret |-> g.ret]
        /\ UNCHANGED <<ad, cc, rc, call>>

\* ColumnAdapter.traverse(obj) = adapt_clause(obj) = self.columns[obj]
Traverse(key) ==
    /\ key \in Live
    /\ Commit("traverse", key, columns_getitem(1, key, memo, Heap))

AdaptCheckPresent(key) ==
    /\ key \in Live /\ IsColumnElement(key)
    /\ Commit("adapt_check_present", key, adapt_check_present(1, key, memo, Heap))

\* ac = self.wrap(adapter): a copy of the adapter with _wrap set and a fresh
\* columns dict; the copy becomes the adapter in use.
Wrap(b) ==
    /\ ad[1]._wrap = 0
    /\ last.op = "init"
    /\ Options(ad[1]) + Options(b) <= MaxOptions
    /\ ad' = [ad EXCEPT ![1]._wrap = 2, ![2] = b]
    /\ memo' = [memo EXCEPT ![1] = EmptyMemo]
    /\ last' = [op |-> "wrap", arg |-> None, ret |-> None]
    /\ UNCHANGED <<heap, alr, alive, cc, rc, call>>

\* an expression object nothing refers to any more is garbage collected; the
\* weak-keyed memo loses its entry
Collect(e) ==
    /\ e \in alive
    /\ \E i \in 1..2 : memo[i][e] # Absent
    /\ \A i \in 1..2 : \A o \in Keys : memo[i][o] # e
    /\ \A x \in alive : \A j \in 1..Len(heap[x]) : heap[x][j] # e
    /\ alive' = alive \ {e}
    /\ memo' = [i \in 1..2 |-> [memo[i] EXCEPT ![e] = Absent]]
    /\ last' = [op |-> "collect", arg |-> e, ret |-> None]
    /\ UNCHANGED <<ad, heap, alr, cc, rc, call>>

Next ==
    \/ \E key \in Keys : Traverse(key)
    \/ \E key \in Keys : AdaptCheckPresent(key)
    \/ \E b \in AdaptersB : Wrap(b)
    \/ \E e \in Exprs : Collect(e)

Spec == Init /\ [][Next]_vars

(***************************************************************************)
(* Claims about the ColumnAdapter (specification Spec).                    *)
(***************************************************************************)
\* the adapter whose memo serves columns[key] of adapter 1 (0: none, the key
\* itself is returned)
Server(key) == IF Vetoed(ad[1], key) THEN ad[1]._wrap ELSE 1

Wrapped == ad[1]._wrap # 0
Looked == last.op \in {"traverse", "adapt_check_present"}

C2_IdempotentAlways ==
    \A c \in ImmCols :
        LET r == memo[1][c]
        IN  (r \in Keys /\ memo[1][r] # Absent) => memo[1][r] = r

\* C2 amended: for an adapter without adapt_required that wraps no other
\* adapter, traversing the result of the traversal of an immutable column
\* (a Column, a singleton constant) gives that result again.
C2_IdempotentPlain ==
    (~Wrapped /\ ~ad[1].adapt_required) =>
        \A c \in ImmCols :
            LET r == memo[1][c]
            IN  (r \in Keys /\ memo[1][r] # Absent) => memo[1][r] = r

\* C2 witness: S1 was adapted to A1 and A1 was traversed in turn.
C2_Witness ==
    /\ ~Wrapped /\ ~ad[1].adapt_required
    /\ memo[1][S1] = A1 /\ memo[1][A1] = A1

\* what the adapter's own mapping and the wrapped adapter's make of an
\* immutable column, each taken alone
Own(i, c) == replace(ad[i], c, TRUE)
OwnOr(i, c) == IF Own(i, c) # None THEN Own(i, c) ELSE c

\* C3 as stated: a wrapping adapter without adapt_required answers with the
\* wrapped adapter's match for the column when there is one, and with its own
\* mapping only otherwise.
C3_WrappedFirst ==
    (Wrapped /\ last.op = "traverse" /\ last.arg \in ImmCols
     /\ ~Vetoed(ad[1], last.arg)
     /\ ~ad[1].adapt_required /\ ~ad[2].adapt_required) =>
        last.ret = IF Own(2, last.arg) # None THEN Own(2, last.arg)
                   ELSE OwnOr(1, last.arg)

\* C3 amended: a wrapping adapter applies its own mapping first and hands the
\* outcome (its replacement, or the column itself) to the wrapped adapter,
\* whose answer is taken unless it is None; adapt_required then turns "no
\* change" into None.
C3_OwnFirstThenWrapped ==
    (Wrapped /\ last.op = "traverse" /\ last.arg \in ImmCols
     /\ ~Vetoed(ad[1], last.arg)) =>
        LET c1 == OwnOr(1, last.arg)
            c2 == IF ad[2].adapt_required /\ OwnOr(2, c1) = c1
                  THEN None ELSE OwnOr(2, c1)
            c  == IF c2 # None THEN c2 ELSE c1
        IN  last.ret = IF ad[1].adapt_required /\ c = last.arg THEN None ELSE c

\* C3 witness: both adapters match S1, and the answer is the adapter's own
\* replacement, which the wrapped adapter has no counterpart for.
C3_Witness ==
    /\ Wrapped /\ last.op = "traverse" /\ last.arg = S1
    /\ Own(1, S1) = A1 /\ Own(2, S1) = B1 /\ Own(2, A1) = None
    /\ last.ret = A1

\* C4 as stated: with adapt_required no lookup returns the column looked up.
C4_RequiredNeverSame ==
    (ad[1].adapt_required /\ last.op = "traverse") => last.ret # last.arg

\* C4 amended: with adapt_required a lookup of a column that include_fn and
\* exclude_fn do not veto never returns that column, and returns None when
\* neither the adapter nor the adapter it wraps has a replacement for it.
C4_RequiredUnlessVetoed ==
    (ad[1].adapt_required /\ last.op = "traverse" /\ ~Vetoed(ad[1], last.arg)) =>
        /\ last.ret # last.arg
        /\ (/\ last.arg \in ImmCols
            /\ Own(1, last.arg) = None
            /\ (Wrapped => Own(2, last.arg) = None))
           => last.ret = None

\* C4 witness: an unchanged column looked up through a wrapping adapter with
\* adapt_required gave None.
C4_Witness ==
    /\ ad[1].adapt_required /\ Wrapped
    /\ last.op = "traverse" /\ last.arg = S1 /\ last.ret = None

C6_SingletonNeverSubstituted ==
    (Looked /\ _is_singleton_constant(last.arg)) =>
        last.ret \notin TgtA \cup TgtB

\* C6 amended: ClauseAdapter.replace as the clone traversal calls it leaves a
\* singleton constant in place: every clone of the expression still has NULL
\* where the expression has it.  (A direct ColumnAdapter lookup of the
\* constant passes _include_singleton_constants and may substitute it.)
C6_SingletonKeptInsideExpressions ==
    \A k \in Clones :
        heap[k] # <<>> =>
            \A j \in 1..Len(E0Children) :
                _is_singleton_constant(E0Children[j]) => heap[k][j] = E0Children[j]

\* C6 witness: the target has a counterpart for NULL, the expression's column
\* was replaced by the traversal and its NULL was not.
C6_Witness ==
    /\ corresponding_column(ad[1], NullConst) = A1
    /\ memo[1][E0] = <<"expr", 1>>
    /\ heap[<<"expr", 1>>][1] = A1
    /\ heap[<<"expr", 1>>][2] = NullConst

(***************************************************************************)
(* ClauseAdapter._corresponding_column run one step at a time, with its    *)
(* call stack explicit.  A frame is one activation: pc is "direct" before  *)
(* the corresponding_column call, "loop" at the head of the for loop over  *)
(* the equivalents, "wait" during a recursive call, "names" at the         *)
(* adapt_on_names test and "ret" at a return.                              *)
(***************************************************************************)
CCCols == {<<"src", i>> : i \in 1..3}

AdaptersCC ==
    {a \in [selectable : {SA}, exported : {TgtA},
            corr : [CCCols -> TgtA \cup {None}],
            equivalents : EquivMaps(CCCols, CCCols),
            include_fn : {NoFn}, exclude_fn : {NoFn},
            adapt_on_names : BOOLEAN, adapt_required : {FALSE},
            allow_label_resolve : {TRUE},
            adapt_from_selectables : {{}},
            _wrap : {0}] : EquivSize(a.equivalents) <= MaxEquivs}

Frame(col, seen) ==
    [col |-> col, seen |-> seen, pc |-> "direct", idx |-> 0,
     newcol |-> None, named |-> FALSE]

Top == cc.stack[Len(cc.stack)]
SetTop(f) == [cc.stack EXCEPT ![Len(cc.stack)] = f]
Expandable(a, f) == f.col \in DOMAIN a.equivalents /\ f.col \notin f.seen

InitCC ==
    /\ ad = <<CHOOSE a \in AdaptersA : Options(a) = 0, DefaultB>>
    /\ FreshHeap
    /\ rc = IdleRC
    /\ call = IdleCall
    /\ \E a \in AdaptersCC : \E col \in CCCols :
          cc = [a |-> a, start |-> col, stack |-> <<Frame(col, {})>>,
                events |-> {}, result |-> Absent, final |-> <<>>]

\* mutant: the test "col not in _seen" is missing
CCDirect_no_seen ==
    /\ cc.stack # <<>> /\ Top.pc = "direct"
    /\ LET newcol == corresponding_column(cc.a, Top.col)
       IN  cc' = [cc EXCEPT
                    !.events = @ \cup {<<"direct", Top.col>>},
                    !.stack = SetTop(
                        IF newcol = None /\ Top.col \in DOMAIN cc.a.equivalents
                        THEN [Top EXCEPT !.pc = "loop", !.idx = 1]
                        ELSE [Top EXCEPT !.pc = "names", !.newcol = newcol])]
    /\ UNCHANGED <<ad, memo, heap, alr, alive, last, rc, call>>

\* mutant: the equivalents are skipped, the name lookup comes right after
\* the failed direct lookup
CCDirect_names_first ==
    /\ cc.stack # <<>> /\ Top.pc = "direct"
    /\ LET newcol == corresponding_column(cc.a, Top.col)
       IN  cc' = [cc EXCEPT
                    !.events = @ \cup {<<"direct", Top.col>>},
                    !.stack = SetTop([Top EXCEPT !.pc = "names", !.newcol = newcol])]
    /\ UNCHANGED <<ad, memo, heap, alr, alive, last, rc, call>>

\* newcol = self.selectable.corresponding_column(col, ...) and the test that
\* guards the loop
CCDirect ==
    /\ cc.stack # <<>> /\ Top.pc = "direct"
    /\ LET newcol == corresponding_column(cc.a, Top.col)
       IN  cc' = [cc EXCEPT
                    !.events = @ \cup {<<"direct", Top.col>>},
                    !.stack = SetTop(
                        IF newcol = None /\ Expandable(cc.a, Top)
                        THEN [Top EXCEPT !.pc = "loop", !.idx = 1]
                        ELSE [Top EXCEPT !.pc = "names", !.newcol = newcol])]
    /\ UNCHANGED <<ad, memo, heap, alr, alive, last, rc, call>>

\* for equiv in self.equivalents[col]: the recursive call, or the loop's end
CCLoop ==
    /\ cc.stack # <<>> /\ Top.pc = "loop"
    /\ LET eq == cc.a.equivalents[Top.col]
       IN  cc' = [cc EXCEPT !.stack =
                    IF Top.idx <= Len(eq)
                    THEN Append(SetTop([Top EXCEPT !.pc = "wait"]),
                                Frame(eq[Top.idx], Top.seen \cup {Top.col}))
                    ELSE SetTop([Top EXCEPT !.pc = "names", !.newcol = None])]
    /\ UNCHANGED <<ad, memo, heap, alr, alive, last, rc, call>>

\* if self.adapt_on_names and newcol is None: ... ; return newcol
CCNames ==
    /\ cc.stack # <<>> /\ Top.pc = "names"
    /\ cc' = IF cc.a.adapt_on_names /\ Top.newcol = None
             THEN [cc EXCEPT
                     !.events = @ \cup {<<"name", Top.col>>},
                     !.stack = SetTop([Top EXCEPT
                         !.pc = "ret", !.named = TRUE,
                         !.newcol = exported_columns_get(cc.a, Name(Top.col))])]
             ELSE [cc EXCEPT !.stack = SetTop([Top EXCEPT !.pc = "ret"])]
    /\ UNCHANGED <<ad, memo, heap, alr, alive, last, rc, call>>

\* a return: to the caller's loop (which returns at once on a non-None
\* value), or out of the outermost call
CCReturn ==
    /\ cc.stack # <<>> /\ Top.pc = "ret"
    /\ LET n == Len(cc.stack)
           rest == SubSeq(cc.stack, 1, n - 1)
           caller == cc.stack[n - 1]
       IN  cc' = IF n = 1
                 THEN [cc EXCEPT !.stack = <<>>, !.result = Top.newcol,
                                 !.final = <<Top>>]
                 ELSE [cc EXCEPT !.stack =
                         [rest EXCEPT ![n - 1] =
                            IF Top.newcol # None
                            THEN [caller EXCEPT !.pc = "ret", !.newcol = Top.newcol]
                            ELSE [caller EXCEPT !.pc = "loop", !.idx = @ + 1]]]
    /\ UNCHANGED <<ad, memo, heap, alr, alive, last, rc, call>>

NextCC == CCDirect \/ CCLoop \/ CCNames \/ CCReturn

\* the interpreter runs the call to its end
SpecCC == InitCC /\ [][NextCC]_vars /\ WF_vars(NextCC)

(***************************************************************************)
(* reduce_columns.  The fixture: tables t1(id) and t2(id, t1_id), x1 an    *)
(* alias of t1 whose column x1.id proxies t1.id, and a text clause.  A     *)
(* foreign key is named by what fk.column gives: a column, or one of the   *)
(* two errors a missing table or column makes it raise.                    *)
(***************************************************************************)
T1_id    == <<"t1", "id">>
T2_id    == <<"t2", "id">>
T2_t1_id == <<"t2", "t1_id">>
X1_id    == <<"x1", "id">>
Txt      == <<"text", "id">>
RCols    == {T1_id, T2_id, T2_t1_id, X1_id, Txt}

NoReferencedColumnError == <<"error", "NoReferencedColumnError">>
NoReferencedTableError  == <<"error", "NoReferencedTableError">>
FkErrors == {NoReferencedColumnError, NoReferencedTableError}

is_text_clause(c) == c = Txt
col_name(c) == c[2]
proxy_set(c) ==
    IF c = X1_id THEN {X1_id, T1_id} ELSE IF c = Txt THEN {} ELSE {c}
shares_lineage(c, other) == proxy_set(c) \cap proxy_set(other) # {}

operators_eq == "eq"
operators_ne == "ne"

Range(s) == {s[i] : i \in 1..Len(s)}
Max(S) == CHOOSE x \in S : \A y \in S : x >= y

\* util.OrderedSet(columns): the first occurrence of each element, in order
RECURSIVE OrderedSet(_)
OrderedSet(s) ==
    IF s = <<>> THEN <<>>
    ELSE LET front == OrderedSet(SubSeq(s, 1, Len(s) - 1))
             x == s[Len(s)]
         IN  IF x \in Range(front) THEN front ELSE Append(front, x)

\* OrderedSet.difference
difference(s, S) == SelectSeq(s, LAMBDA x : x \notin S)

\* chain(*[c.foreign_keys for c in col.proxy_set]); both are unordered sets
chain_foreign_keys(foreign_keys, col) ==
    UNION {foreign_keys[c] : c \in proxy_set(col) \cap DOMAIN foreign_keys}

RECURSIVE fk_pass_omits_target(_, _, _, _, _)
\* mutant: the omitted column is the foreign key's target, not its owner
fk_pass_omits_target(cset, i, omit, foreign_keys, kw) ==
    IF i > Len(cset) THEN [raised |-> {}, omit |-> omit]
    ELSE
    LET col == cset[i]
        fks == chain_foreign_keys(foreign_keys, col)
        others == Range(cset) \ {col}
        errors == IF others # {} /\ ~kw.ignore_nonexistent_tables
                  THEN fks \cap FkErrors ELSE {}
        hits == {c \in others : \E fk_col \in fks \ FkErrors :
                    /\ shares_lineage(fk_col, c)
                    /\ (~kw.only_synonyms \/ col_name(c) = col_name(col))}
    IN  IF errors # {} THEN [raised |-> errors, omit |-> omit]
        ELSE fk_pass_omits_target(cset, i + 1, omit \cup hits, foreign_keys, kw)

RECURSIVE fk_pass_swallows(_, _, _, _, _)
\* mutant: the two except clauses continue whatever the flag says
fk_pass_swallows(cset, i, omit, foreign_keys, kw) ==
    IF i > Len(cset) THEN [raised |-> {}, omit |-> omit]
    ELSE
    LET col == cset[i]
        fks == chain_foreign_keys(foreign_keys, col)
        others == Range(cset) \ {col}
        hit == \E fk_col \in fks \ FkErrors : \E c \in others :
                    /\ shares_lineage(fk_col, c)
                    /\ (~kw.only_synonyms \/ col_name(c) = col_name(col))
    IN  fk_pass_swallows(cset, i + 1, IF hit THEN omit \cup {col} ELSE omit,
                         foreign_keys, kw)

RECURSIVE fk_pass(_, _, _, _, _)
\* for col in cset_no_text, from the i-th on.  The foreign keys of a column
\* come out of sets, in no fixed order, and every one of them is carried
\* into the loop over the other columns (the break leaves that inner loop
\* only): fk.column is evaluated, and may raise, only once that loop meets
\* a column other than col.  raised is the set of errors the iteration
\* order can make the call raise ({}: it raises nothing).
fk_pass(cset, i, omit, foreign_keys, kw) ==
    IF i > Len(cset) THEN [raised |-> {}, omit |-> omit]
    ELSE
    LET col == cset[i]
        fks == chain_foreign_keys(foreign_keys, col)
        others == Range(cset) \ {col}
        errors == IF others # {} /\ ~kw.ignore_nonexistent_tables
                  THEN fks \cap FkErrors ELSE {}
        hit == \E fk_col \in fks \ FkErrors : \E c \in others :
                    /\ shares_lineage(fk_col, c)
                    /\ (~kw.only_synonyms \/ col_name(c) = col_name(col))
    IN  IF errors # {} THEN [raised |-> errors, omit |-> omit]
        ELSE fk_pass(cset, i + 1, IF hit THEN omit \cup {col} ELSE omit,
                     foreign_keys, kw)

\* visit_binary: the new value of omit
visit_binary(binary, cset, omit, kw) ==
    IF binary.operator # operators_eq THEN omit
    ELSE
    LET cols == UNION {proxy_set(c) : c \in Range(cset) \ omit}
        found == {j \in 1..Len(cset) :
                    /\ shares_lineage(cset[j], binary.right)
                    /\ (~kw.only_synonyms
                        \/ col_name(cset[j]) = col_name(binary.left))}
    IN  IF binary.left \in cols /\ binary.right \in cols /\ found # {}
        THEN omit \cup {cset[Max(found)]}
        ELSE omit

\* visitors.traverse(clause, {}, {"binary": visit_binary}) over the binary
\* expressions of one clause, in traversal order
RECURSIVE traverse_binaries(_, _, _, _)
traverse_binaries(binaries, cset, omit, kw) ==
    IF binaries = <<>> THEN omit
    ELSE traverse_binaries(Tail(binaries), cset,
                           visit_binary(Head(binaries), cset, omit, kw), kw)

\* for clause in clauses: if clause is not None: ...
RECURSIVE clause_pass(_, _, _, _)
clause_pass(clauses, cset, omit, kw) ==
    IF clauses = <<>> THEN omit
    ELSE clause_pass(Tail(clauses), cset,
                     IF Head(clauses).is_none THEN omit
                     ELSE traverse_binaries(Head(clauses).binaries, cset, omit, kw),
                     kw)

reduce_columns(columns, clauses, kw, foreign_keys) ==
    LET column_set == OrderedSet(columns)
        cset_no_text ==
            difference(column_set, {c \in Range(column_set) : is_text_clause(c)})
        fk == fk_pass(cset_no_text, 1, {}, foreign_keys, kw)
        omit == clause_pass(clauses, cset_no_text, fk.omit, kw)
    IN  IF fk.raised # {} THEN [raised |-> fk.raised, result |-> <<>>]
        ELSE [raised |-> {}, result |-> difference(column_set, omit)]

Binary(op, l, r) == [operator |-> op, left |-> l, right |-> r]

\* the argument lists handed to reduce_columns
ColumnLists == UNION {[1..n -> RCols] : n \in 0..MaxCols}
ForeignKeys ==
    [T1_id    : {{}, {T2_id}, {NoReferencedColumnError}},
     T2_id    : {{}, {T1_id}},
     T2_t1_id : {{}, {T1_id}, {NoReferencedColumnError}, {NoReferencedTableError},
                 {T1_id, NoReferencedTableError}, {T2_id}}]
ForeignKeyMaps ==
    {(T1_id :> f.T1_id) @@ (T2_id :> f.T2_id) @@ (T2_t1_id :> f.T2_t1_id) :
        f \in ForeignKeys}
NoneClause == [is_none |-> TRUE, binaries |-> <<>>]
Clause(binaries) == [is_none |-> FALSE, binaries |-> binaries]
ClauseLists ==
    {<<>>, <<NoneClause>>,
     <<Clause(<<Binary(operators_eq, T1_id, T2_t1_id)>>)>>,
     <<Clause(<<Binary(operators_ne, T1_id, T2_id),
                Binary(operators_eq, T1_id, T2_id)>>)>>}
Keywords == [ignore_nonexistent_tables : BOOLEAN, only_synonyms : BOOLEAN]

InitReduce ==
    /\ ad = <<CHOOSE a \in AdaptersA : Options(a) = 0, DefaultB>>
    /\ FreshHeap
    /\ cc = IdleCC
    /\ call = IdleCall
    /\ \E columns \in ColumnLists, clauses \in ClauseLists, kw \in Keywords,
          foreign_keys \in ForeignKeyMaps :
          rc = [columns |-> columns, clauses |-> clauses, kw |-> kw,
                foreign_keys |-> foreign_keys, pc |-> "call",
                ret |-> [raised |-> {}, result |-> <<>>]]

ReduceColumns ==
    /\ rc.pc = "call"
    /\ rc' = [rc EXCEPT !.pc = "done", !.ret =
                reduce_columns(rc.columns, rc.clauses, rc.kw, rc.foreign_keys)]
    /\ UNCHANGED <<ad, memo, heap, alr, alive, last, cc, call>>

NextReduce == ReduceColumns

SpecReduce == InitReduce /\ [][NextReduce]_vars

Frames == {cc.stack[i] : i \in 1..Len(cc.stack)} \cup {cc.final[i] : i \in 1..Len(cc.final)}
Expanded == {i \in 1..Len(cc.stack) : cc.stack[i].idx >= 1}
CallDone == cc.result # Absent

\* C7: the call returns for every column and every equivalence map, cyclic
\* and self-referential ones included; the columns expanded through the map
\* by the activations on the call stack are pairwise different, so the stack
\* is never deeper than the number of columns plus one.
C7_TerminatesNoReexpansion ==
    /\ [](/\ \A i, j \in Expanded : i # j => cc.stack[i].col # cc.stack[j].col
          /\ Len(cc.stack) <= Cardinality(CCCols) + 1)
    /\ <>CallDone

\* the cycle guard has acted: an activation met a column of the map that is
\* already in _seen, did not expand it, and the call has gone on from there
C7_Witness ==
    \E i \in 1..Len(cc.stack) :
        /\ cc.stack[i].col \in cc.stack[i].seen
        /\ cc.stack[i].col \in DOMAIN cc.a.equivalents
        /\ cc.stack[i].pc = "ret" /\ cc.stack[i].idx = 0
        /\ Len(cc.stack) >= 3

EquivStep(a, S) ==
    S \cup UNION {{a.equivalents[c][i] : i \in 1..Len(a.equivalents[c])} :
                    c \in S \cap DOMAIN a.equivalents}
Reachable(a, c) == EquivStep(a, EquivStep(a, EquivStep(a, {c})))

\* C8 as stated: a name lookup happens only with adapt_on_names, and only
\* after the direct lookup of the column and of every equivalent reachable
\* through the map has been made and has failed.
C8_NameAfterEveryEquivalent ==
    (\E c \in CCCols : <<"name", c>> \in cc.events)
    => /\ cc.a.adapt_on_names
       /\ \A e \in Reachable(cc.a, cc.start) :
            <<"direct", e>> \in cc.events /\ corresponding_column(cc.a, e) = None

\* C8 amended: within each activation the order is direct lookup, then the
\* column's equivalents, then the column's own name: the map is entered only
\* after the direct lookup failed, and the name lookup is made only with
\* adapt_on_names, after the direct lookup failed and after every equivalent
\* of that column (when the map is entered) has returned None.
C8_PerColumnOrder ==
    \A f \in Frames :
        /\ f.idx >= 1 =>
             /\ <<"direct", f.col>> \in cc.events
             /\ corresponding_column(cc.a, f.col) = None
        /\ f.named =>
             /\ cc.a.adapt_on_names
             /\ <<"direct", f.col>> \in cc.events
             /\ corresponding_column(cc.a, f.col) = None
             /\ Expandable(cc.a, f) => f.idx = Len(cc.a.equivalents[f.col]) + 1

\* the outermost call resolved its column by name after two equivalents
\* had failed
C8_Witness ==
    /\ CallDone /\ cc.result # None
    /\ cc.final[1].named
    /\ Expandable(cc.a, cc.final[1])
    /\ Len(cc.a.equivalents[cc.start]) = 2

Called == rc.pc = "done"
Returned == Called /\ rc.ret.raised = {}
Raised == Called /\ rc.ret.raised # {}
InputCols == Range(rc.columns)
NonText == {c \in InputCols : ~is_text_clause(c)}

\* s is t with some elements left out, the others in t's order
IsOrderedSubset(s, t) == s = difference(t, Range(t) \ Range(s))

\* col has a foreign key whose target shares lineage with another input column
FkRedundant(col) ==
    \E fk_col \in chain_foreign_keys(rc.foreign_keys, col) \ FkErrors :
        \E c \in InputCols \ {col} :
            /\ shares_lineage(fk_col, c)
            /\ (~rc.kw.only_synonyms \/ col_name(c) = col_name(col))

IsExample ==
    /\ rc.columns = <<T1_id, T2_id, T2_t1_id>>
    /\ rc.clauses = <<Clause(<<Binary(operators_eq, T1_id, T2_t1_id)>>)>>
    /\ rc.foreign_keys[T2_t1_id] = {T1_id}
    /\ rc.foreign_keys[T1_id] = {} /\ rc.foreign_keys[T2_id] = {}
    /\ ~rc.kw.only_synonyms

\* C9: what reduce_columns returns is its input without duplicates and with
\* some columns left out, in the input's order; no column is in it that has
\* a foreign key whose target shares lineage with another column of the
\* input (of the same name, under only_synonyms); and for
\* [t1.id, t2.id, t2.t1_id] with t1.id == t2.t1_id and t2.t1_id a foreign
\* key to t1.id it is exactly [t1.id, t2.id].
C9_OrderedSubsetWithoutFkRedundant ==
    Returned =>
        /\ IsOrderedSubset(rc.ret.result, OrderedSet(rc.columns))
        /\ \A col \in InputCols : FkRedundant(col) => col \notin Range(rc.ret.result)
        /\ IsExample => rc.ret.result = <<T1_id, T2_id>>

\* the example has been reduced
C9_Witness == Returned /\ IsExample /\ rc.ret.result = <<T1_id, T2_id>>

HasUnresolvedFk ==
    \E col \in InputCols : chain_foreign_keys(rc.foreign_keys, col) \cap FkErrors # {}
WithoutUnresolved ==
    [c \in DOMAIN rc.foreign_keys |-> rc.foreign_keys[c] \ FkErrors]
AsIfAbsent == reduce_columns(rc.columns, rc.clauses, rc.kw, WithoutUnresolved)

\* C10 as stated: with an unresolvable foreign key on any input column the
\* call raises when the flag is not set, whatever the input; with the flag
\* it raises nothing and returns what it would without that foreign key.
C10_RaisesWhateverTheInput ==
    (Called /\ HasUnresolvedFk) =>
        IF rc.kw.ignore_nonexistent_tables
        THEN rc.ret = AsIfAbsent /\ rc.ret.raised = {}
        ELSE rc.ret.raised # {}

\* C10 amended: without the flag the call raises exactly when the input
\* holds, besides the column with the unresolvable foreign key, another
\* distinct non-text column; when there is none the foreign key is never
\* resolved and the call returns what it would without it.  With the flag
\* it raises nothing and returns what it would without that foreign key.
C10_RaisesWithAnotherColumn ==
    (Called /\ HasUnresolvedFk) =>
        IF ~rc.kw.ignore_nonexistent_tables /\ Cardinality(NonText) >= 2
        THEN rc.ret.raised # {} /\ rc.ret.raised \subseteq FkErrors
        ELSE rc.ret = AsIfAbsent /\ rc.ret.raised = {}

\* the call has raised on an unresolvable foreign key
C10_Witness ==
    /\ Raised /\ HasUnresolvedFk
    /\ ~rc.kw.ignore_nonexistent_tables /\ Cardinality(NonText) >= 2

(***************************************************************************)
(* The functions below are run as one call each: the variable call holds   *)
(* the arguments and, once pc is "done", the outcome.  The adapter, the    *)
(* resolution stack and reduce_columns stay idle meanwhile.                *)
(***************************************************************************)
OthersIdle ==
    /\ ad = <<CHOOSE a \in AdaptersA : Options(a) = 0, DefaultB>>
    /\ FreshHeap
    /\ cc = IdleCC
    /\ rc = IdleRC
OthersUnchanged == UNCHANGED <<ad, memo, heap, alr, alive, last, cc, rc>>
CallDoneOf(fn) == call.pc = "done" /\ call.fn = fn

(***************************************************************************)
(* criterion_as_pairs.  The fixture: t2.t1_id has a declared foreign key   *)
(* to t1.id; FuncExpr is a column expression that is no Column; SubSelect  *)
(* is no ColumnElement.  The expression is given as the sequence of its    *)
(* binary nodes in traversal order.                                        *)
(***************************************************************************)
MaxBinaries == 2   \* binary nodes in the expression of criterion_as_pairs

FuncExpr  == <<"func", "lower">>
SubSelect == <<"select", "s">>
Operands  == {T1_id, T2_t1_id, FuncExpr, SubSelect}
IsColumn(c) == c \in {T1_id, T2_t1_id}
IsColumnElementOperand(c) == c \in {T1_id, T2_t1_id, FuncExpr}

\* Column.references(column): a declared foreign key of the one refers to the other
references(a, b) == a = T2_t1_id /\ b = T1_id

\* a.compare(b): structural comparison
col_is(a, b) == a = b

\* mutant: the second branch of the consider_as_foreign_keys case appends
\* the pair the other way round
criterion_visit_binary_swapped(binary, cfk, crk, any_operator) ==
    LET l == binary.left
        r == binary.right
    IN
    IF ~any_operator /\ binary.operator # operators_eq THEN <<>>
    ELSE IF ~IsColumnElementOperand(l) \/ ~IsColumnElementOperand(r) THEN <<>>
    ELSE IF cfk # {}
    THEN IF l \in cfk /\ (col_is(r, l) \/ r \notin cfk) THEN << <<r, l>> >>
         ELSE IF r \in cfk /\ (col_is(l, r) \/ l \notin cfk) THEN << <<r, l>> >>
         ELSE <<>>
    ELSE IF crk # {}
    THEN IF l \in crk /\ (col_is(r, l) \/ r \notin crk) THEN << <<l, r>> >>
         ELSE IF r \in crk /\ (col_is(l, r) \/ l \notin crk) THEN << <<r, l>> >>
         ELSE <<>>
    ELSE IF IsColumn(l) /\ IsColumn(r)
    THEN IF references(l, r) THEN << <<r, l>> >>
         ELSE IF references(r, l) THEN << <<l, r>> >>
         ELSE <<>>
    ELSE <<>>

\* visit_binary of criterion_as_pairs: the pairs this binary appends
criterion_visit_binary(binary, cfk, crk, any_operator) ==
    LET l == binary.left
        r == binary.right
    IN
    IF ~any_operator /\ binary.operator # operators_eq THEN <<>>
    ELSE IF ~IsColumnElementOperand(l) \/ ~IsColumnElementOperand(r) THEN <<>>
    ELSE IF cfk # {}
    THEN IF l \in cfk /\ (col_is(r, l) \/ r \notin cfk) THEN << <<r, l>> >>
         ELSE IF r \in cfk /\ (col_is(l, r) \/ l \notin cfk) THEN << <<l, r>> >>
         ELSE <<>>
    ELSE IF crk # {}
    THEN IF l \in crk /\ (col_is(r, l) \/ r \notin crk) THEN << <<l, r>> >>
         ELSE IF r \in crk /\ (col_is(l, r) \/ l \notin crk) THEN << <<r, l>> >>
         ELSE <<>>
    ELSE IF IsColumn(l) /\ IsColumn(r)
    THEN IF references(l, r) THEN << <<r, l>> >>
         ELSE IF references(r, l) THEN << <<l, r>> >>
         ELSE <<>>
    ELSE <<>>

\* visitors.traverse(expression, {}, {"binary": visit_binary})
RECURSIVE criterion_traverse(_, _, _, _)
criterion_traverse(binaries, cfk, crk, any_operator) ==
    IF binaries = <<>> THEN <<>>
    ELSE criterion_visit_binary(Head(binaries), cfk, crk, any_operator)
         \o criterion_traverse(Tail(binaries), cfk, crk, any_operator)

criterion_as_pairs(expression, consider_as_foreign_keys, consider_as_referenced_keys, any_operator) ==
    IF consider_as_foreign_keys # {} /\ consider_as_referenced_keys # {}
    THEN [raised |-> "ArgumentError", pairs |-> <<>>]
    ELSE [raised |-> "",
          pairs |-> criterion_traverse(expression, consider_as_foreign_keys,
                                       consider_as_referenced_keys, any_operator)]

CriterionBinaries ==
    {Binary(op, l, r) : op \in {operators_eq, operators_ne},
                        l \in Operands, r \in Operands}
CriterionExpressions == UNION {[1..n -> CriterionBinaries] : n \in 0..MaxBinaries}
ConsiderSets == {{}, {T2_t1_id}, {T1_id}, {T1_id, T2_t1_id}}

InitCriterion ==
    /\ OthersIdle
    /\ \E expression \in CriterionExpressions,
          cfk \in ConsiderSets, crk \in ConsiderSets, any_operator \in BOOLEAN :
          call = [fn |-> "criterion_as_pairs", pc |-> "call",
                  expression |-> expression,
                  consider_as_foreign_keys |-> cfk,
                  consider_as_referenced_keys |-> crk,
                  any_operator |-> any_operator,
                  ret |-> [raised |-> "", pairs |-> <<>>]]

CriterionAsPairs ==
    /\ call.pc = "call"
    /\ call' = [call EXCEPT !.pc = "done", !.ret =
                  criterion_as_pairs(call.expression, call.consider_as_foreign_keys,
                                     call.consider_as_referenced_keys,
                                     call.any_operator)]
    /\ OthersUnchanged

NextCriterion == CriterionAsPairs

SpecCriterion == InitCriterion /\ [][NextCriterion]_vars

\* the binaries of the expression a pair may come from
Eligible ==
    {i \in 1..Len(call.expression) :
        /\ call.any_operator \/ call.expression[i].operator = operators_eq
        /\ IsColumnElementOperand(call.expression[i].left)
        /\ IsColumnElementOperand(call.expression[i].right)}
FromBinary(p, i) ==
    \/ p = <<call.expression[i].left, call.expression[i].right>>
    \/ p = <<call.expression[i].right, call.expression[i].left>>

\* C11: every returned pair (x, y) is made of the two sides of a binary of
\* the expression whose operator is equality (any operator with
\* any_operator); y is in consider_as_foreign_keys when that set is given
\* (non-empty), x is in consider_as_referenced_keys when that set is given,
\* and y has a declared foreign key to x when neither is; there are no more
\* pairs than such binaries, and a one-binary expression gives at most one.
C11_PairsOriented ==
    (CallDoneOf("criterion_as_pairs") /\ call.ret.raised = "") =>
        LET pairs == call.ret.pairs IN
        /\ \A k \in 1..Len(pairs) :
              /\ \E i \in Eligible : FromBinary(pairs[k], i)
              /\ call.consider_as_foreign_keys # {}
                    => pairs[k][2] \in call.consider_as_foreign_keys
              /\ call.consider_as_referenced_keys # {}
                    => pairs[k][1] \in call.consider_as_referenced_keys
              /\ (call.consider_as_foreign_keys = {}
                  /\ call.consider_as_referenced_keys = {})
                    => references(pairs[k][2], pairs[k][1])
        /\ Len(pairs) <= Cardinality(Eligible)

\* both kinds of orientation at work: two pairs from two binaries, the
\* second binary written the other way round
C11_Witness ==
    /\ CallDoneOf("criterion_as_pairs")
    /\ call.consider_as_foreign_keys = {T2_t1_id}
    /\ call.expression = <<Binary(operators_eq, T2_t1_id, T1_id),
                           Binary(operators_eq, T1_id, T2_t1_id)>>
    /\ call.ret.pairs = << <<T1_id, T2_t1_id>>, <<T1_id, T2_t1_id>> >>

(***************************************************************************)
(* FROM clauses for the join helpers.  A FROM object is a tree, written as *)
(* a tuple whose first element is its class; a join of the same two        *)
(* operands is the same object.  Tables a(id), b(id, a_id -> a.id),        *)
(* c(id), d(id, c_id -> c.id).                                             *)
(***************************************************************************)
MaxClauses == 2   \* length of the list of FROM clauses handed to the join helpers

Table(n)        == <<"table", n>>
Alias(e)        == <<"alias", e>>
Join(l, r)      == <<"join", l, r>>
FromGrouping(e) == <<"grouping", e>>

IsJoin(f)         == f[1] = "join"
IsFromGrouping(f) == f[1] = "grouping"
IsAlias(f)        == f[1] = "alias"
IsTableClause(f)  == f[1] = "table"

TA == Table("a")
TB == Table("b")
TC == Table("c")
TD == Table("d")
AliasA == Alias(TA)
JAB == Join(TA, TB)
JCD == Join(TC, TD)
GAB == FromGrouping(JAB)
JoinFroms == {TA, TB, TC, AliasA, JAB, JCD, GAB}

\* FromClause._from_objects: a join is itself plus the FROM objects of its
\* two sides, a grouping those of its element, anything else itself alone
RECURSIVE _from_objects(_)
_from_objects(f) ==
    IF IsJoin(f) THEN <<f>> \o _from_objects(f[2]) \o _from_objects(f[3])
    ELSE IF IsFromGrouping(f) THEN _from_objects(f[2])
    ELSE <<f>>

\* f.is_derived_from(s): s is f; or f is an alias of something derived from
\* s; or f is a join with a side derived from s; or a grouping of such
RECURSIVE from_is_derived_from(_, _)
from_is_derived_from(f, s) ==
    IF IsJoin(f)
    THEN f = s \/ from_is_derived_from(f[2], s) \/ from_is_derived_from(f[3], s)
    ELSE IF IsFromGrouping(f) THEN from_is_derived_from(f[2], s)
    ELSE IF IsAlias(f) THEN f = s \/ from_is_derived_from(f[2], s)
    ELSE f = s

\* surface_selectables, as the sequence of what it yields: the stack is
\* popped from its end, and a join pushes its left and then its right side
RECURSIVE surface_selectables_from(_)
surface_selectables_from(stack) ==
    IF stack = <<>> THEN <<>>
    ELSE LET elem == stack[Len(stack)]
             rest == SubSeq(stack, 1, Len(stack) - 1)
         IN  <<elem>> \o surface_selectables_from(
                 IF IsJoin(elem) THEN rest \o <<elem[2], elem[3]>>
                 ELSE IF IsFromGrouping(elem) THEN Append(rest, elem[2])
                 ELSE rest)
surface_selectables(clause) == surface_selectables_from(<<clause>>)

\* the indices (from 0) i of clauses, in order, each once for every s of
\* selectables that clauses[i] is derived from
RECURSIVE find_join_source_from(_, _, _)
find_join_source_from(clauses, selectables, i) ==
    IF i > Len(clauses) THEN <<>>
    ELSE [k \in 1..Cardinality({j \in 1..Len(selectables) :
                    from_is_derived_from(clauses[i], selectables[j])}) |-> i - 1]
         \o find_join_source_from(clauses, selectables, i + 1)

find_join_source(clauses, join_to) ==
    find_join_source_from(clauses, _from_objects(join_to), 1)

\* the increasing list of the members of a set of numbers
RECURSIVE Increasing(_)
Increasing(S) ==
    IF S = {} THEN <<>> ELSE Append(Increasing(S \ {Max(S)}), Max(S))

\* mutant: the first pass keeps a clause only when it is the selectable itself
liberal_idx_identity(clauses, selectables) ==
    Increasing({i - 1 : i \in {k \in 1..Len(clauses) :
        \E j \in 1..Len(selectables) : clauses[k] = selectables[j]}})

\* first pass of find_left_clause_that_matches_given (the loop breaks at the
\* first selectable the clause is derived from)
liberal_idx(clauses, selectables) ==
    Increasing({i - 1 : i \in {k \in 1..Len(clauses) :
        \E j \in 1..Len(selectables) :
            from_is_derived_from(clauses[k], selectables[j])}})

\* second pass: the members of liberal_idx whose surface selectables meet
\* those of a selectable
conservative_idx(clauses, selectables, liberal) ==
    SelectSeq(liberal, LAMBDA idx :
        \E j \in 1..Len(selectables) :
            Range(surface_selectables(clauses[idx + 1]))
                \cap Range(surface_selectables(selectables[j])) # {})

find_left_clause_that_matches_given_from(clauses, selectables, liberal) ==
    IF Len(liberal) > 1 /\ conservative_idx(clauses, selectables, liberal) # <<>>
    THEN conservative_idx(clauses, selectables, liberal)
    ELSE liberal

find_left_clause_that_matches_given(clauses, join_from) ==
    find_left_clause_that_matches_given_from(
        clauses, _from_objects(join_from),
        liberal_idx(clauses, _from_objects(join_from)))

ClauseListsOfFroms == UNION {[1..n -> JoinFroms] : n \in 0..MaxClauses}

InitJoinSource ==
    /\ OthersIdle
    /\ \E clauses \in ClauseListsOfFroms, join_to \in JoinFroms,
          fn \in {"find_join_source", "find_left_clause_that_matches_given"} :
          call = [fn |-> fn, pc |-> "call", clauses |-> clauses,
                  join_to |-> join_to, ret |-> <<>>]

FindJoinSource ==
    /\ call.pc = "call" /\ call.fn = "find_join_source"
    /\ call' = [call EXCEPT !.pc = "done",
                            !.ret = find_join_source(call.clauses, call.join_to)]
    /\ OthersUnchanged

FindLeftClauseThatMatchesGiven ==
    /\ call.pc = "call" /\ call.fn = "find_left_clause_that_matches_given"
    /\ call' = [call EXCEPT !.pc = "done", !.ret =
                  find_left_clause_that_matches_given(call.clauses, call.join_to)]
    /\ OthersUnchanged

NextJoinSource == FindJoinSource \/ FindLeftClauseThatMatchesGiven

SpecJoinSource == InitJoinSource /\ [][NextJoinSource]_vars

\* indices (from 0) of the clauses derived from a FROM object of the target
DerivedIdx ==
    {i \in 0..(Len(call.clauses) - 1) :
        \E s \in Range(_from_objects(call.join_to)) :
            from_is_derived_from(call.clauses[i + 1], s)}

\* C12: find_join_source returns the increasing list of exactly the indices
\* of the clauses derived from a FROM object of the target.
C12_ExactIncreasingIndices ==
    CallDoneOf("find_join_source") => call.ret = Increasing(DerivedIdx)

\* indices whose clause shares a surface selectable with the target
SharingIdx ==
    {i \in DerivedIdx :
        Range(surface_selectables(call.clauses[i + 1]))
            \cap Range(surface_selectables(call.join_to)) # {}}

\* C13: find_left_clause_that_matches_given returns the liberal list L
\* (indices of the clauses derived from the target, each once, increasing)
\* when it has at most one member; otherwise the members of L whose clause
\* shares a surface selectable with the target when there are any, and L
\* when there are none.
C13_LiberalThenStrict ==
    CallDoneOf("find_left_clause_that_matches_given") =>
        /\ call.ret = IF Cardinality(DerivedIdx) > 1 /\ SharingIdx # {}
                      THEN Increasing(SharingIdx)
                      ELSE Increasing(DerivedIdx)
        /\ Range(call.ret) \subseteq DerivedIdx

\* the strict pass has narrowed two derived clauses down to one
C13_Witness ==
    /\ CallDoneOf("find_left_clause_that_matches_given")
    /\ call.clauses = <<AliasA, JAB>> /\ call.join_to = TA
    /\ Cardinality(DerivedIdx) = 2
    /\ call.ret = <<1>>

(***************************************************************************)
(* find_left_clause_to_join_from.  A column is written "table.name"; an    *)
(* alias has its own copy of each column of what it aliases; a join and a  *)
(* grouping have the columns of what they contain.  An ON clause is        *)
(* modelled by the set of columns it refers to.                            *)
(***************************************************************************)
table_c(n) == IF n = "a" THEN {"a.id"}
              ELSE IF n = "b" THEN {"b.id", "b.a_id"}
              ELSE IF n = "c" THEN {"c.id"}
              ELSE {"d.id", "d.c_id"}

\* the column an alias column is a copy of; a table column is its own
base_column(c) == IF c = "a_1.id" THEN "a.id" ELSE c

\* f.c
RECURSIVE from_c(_)
from_c(f) ==
    IF IsJoin(f) THEN from_c(f[2]) \cup from_c(f[3])
    ELSE IF IsFromGrouping(f) THEN from_c(f[2])
    ELSE IF IsAlias(f) THEN {"a_1.id"}
    ELSE table_c(f[2])

\* declared foreign keys: b.a_id -> a.id, d.c_id -> c.id
fk_references(x, y) ==
    \/ x = "b.a_id" /\ base_column(y) = "a.id"
    \/ x = "d.c_id" /\ base_column(y) = "c.id"

\* Join._can_join(f, s): a foreign key links a column of one to the other
_can_join(f, s) ==
    \E x \in from_c(f), y \in from_c(s) : fk_references(x, y) \/ fk_references(y, x)

\* f._hide_froms: a join hides the FROM objects of its two sides
RECURSIVE _hide_froms(_)
_hide_froms(f) ==
    IF IsJoin(f) THEN Range(_from_objects(f[2])) \cup Range(_from_objects(f[3]))
    ELSE IF IsFromGrouping(f) THEN _hide_froms(f[2])
    ELSE {}

NoOnclause == [is_none |-> TRUE, columns |-> {}]
Onclause(cols) == [is_none |-> FALSE, columns |-> cols]
_find_columns(onclause) == onclause.columns
Onclauses ==
    {NoOnclause} \cup {Onclause(cols) : cols \in
        {{}, {"a.id", "b.a_id"}, {"a_1.id", "b.a_id"}, {"a.id", "d.c_id"}}}

\* the test made of clause f against selectable s in the loop
can_join_from(f, s, resolve_ambiguity, onclause) ==
    IF resolve_ambiguity
    THEN _find_columns(onclause) \subseteq (from_c(f) \cup from_c(s))
    ELSE ~onclause.is_none \/ _can_join(f, s)

\* mutant: the clause itself is not left out of the selectables
join_from_candidates_with_self(clauses, selectables, onclause) ==
    Increasing({k - 1 : k \in {i \in 1..Len(clauses) :
        \E s \in selectables :
            can_join_from(clauses[i], s,
                Len(clauses) > 1 /\ ~onclause.is_none, onclause)}})

\* idx after the loop
join_from_candidates(clauses, selectables, onclause) ==
    Increasing({k - 1 : k \in {i \in 1..Len(clauses) :
        \E s \in selectables \ {clauses[i]} :
            can_join_from(clauses[i], s,
                Len(clauses) > 1 /\ ~onclause.is_none, onclause)}})

toremove(clauses) == UNION {_hide_froms(clauses[k]) : k \in 1..Len(clauses)}

\* mutant: hidden FROMs are kept
join_from_hide_froms_kept(clauses, idx) == idx

\* the "hide froms" step
join_from_hide_froms(clauses, idx) ==
    IF Len(idx) > 1
    THEN SelectSeq(idx, LAMBDA i : clauses[i + 1] \notin toremove(clauses))
    ELSE idx

\* mutant: nothing resolved means nothing returned
join_from_return_strict(clauses, onclause, idx) == idx

\* the return
join_from_return(clauses, onclause, idx) ==
    IF idx = <<>> /\ ~onclause.is_none
    THEN [k \in 1..Len(clauses) |-> k - 1]
    ELSE idx

find_left_clause_to_join_from(clauses, join_to, onclause) ==
    join_from_return(clauses, onclause,
        join_from_hide_froms(clauses,
            join_from_candidates(clauses, Range(_from_objects(join_to)), onclause)))

InitJoinFrom ==
    /\ OthersIdle
    /\ \E clauses \in ClauseListsOfFroms, join_to \in JoinFroms,
          onclause \in Onclauses :
          call = [fn |-> "find_left_clause_to_join_from", pc |-> "call",
                  clauses |-> clauses, join_to |-> join_to,
                  onclause |-> onclause, idx |-> <<>>, ret |-> <<>>]

\* idx keeps the candidates found by the loop, ret what is returned
FindLeftClauseToJoinFrom ==
    /\ call.pc = "call" /\ call.fn = "find_left_clause_to_join_from"
    /\ call' = [call EXCEPT
                  !.pc = "done",
                  !.idx = join_from_candidates(call.clauses,
                              Range(_from_objects(call.join_to)), call.onclause),
                  !.ret = find_left_clause_to_join_from(call.clauses,
                              call.join_to, call.onclause)]
    /\ OthersUnchanged

NextJoinFrom == FindLeftClauseToJoinFrom

SpecJoinFrom == InitJoinFrom /\ [][NextJoinFrom]_vars

JoinFromDone == CallDoneOf("find_left_clause_to_join_from")

\* the FROM objects of the target other than clause i (counted from 0)
OtherSelectables(i) ==
    Range(_from_objects(call.join_to)) \ {call.clauses[i + 1]}

\* C14: with more than one clause and an ON clause, clause i is a candidate
\* iff its columns together with those of some FROM object of the target
\* other than itself hold every column of the ON clause; with no ON clause,
\* iff it can be joined to some such FROM object.
C14_CandidateTest ==
    JoinFromDone =>
        \A i \in 0..(Len(call.clauses) - 1) :
            /\ (Len(call.clauses) > 1 /\ ~call.onclause.is_none) =>
                 (i \in Range(call.idx) <=>
                    \E s \in OtherSelectables(i) :
                        call.onclause.columns \subseteq
                            (from_c(call.clauses[i + 1]) \cup from_c(s)))
            /\ call.onclause.is_none =>
                 (i \in Range(call.idx) <=>
                    \E s \in OtherSelectables(i) : _can_join(call.clauses[i + 1], s))

\* the ON clause tells b apart from c as the clause to join a from
C14_Witness ==
    /\ JoinFromDone
    /\ call.clauses = <<TC, TB>> /\ call.join_to = TA
    /\ call.onclause = Onclause({"a.id", "b.a_id"})
    /\ call.idx = <<1>>

Hidden(i) == call.clauses[i + 1] \in toremove(call.clauses)

\* C15 as stated: no returned index is that of a clause hidden by a clause
\* of the list.
C15_NoHiddenReturned ==
    JoinFromDone => \A i \in Range(call.ret) : ~Hidden(i)

\* C15, amended: when more than one candidate is found and one of them is
\* not hidden, no returned index is that of a hidden clause; when no
\* candidate is found and an ON clause is given, every index is returned,
\* hidden or not.
C15_HiddenRemovedFromCandidates ==
    JoinFromDone =>
        /\ (Len(call.idx) > 1 /\ \E i \in Range(call.idx) : ~Hidden(i)) =>
             call.ret = SelectSeq(call.idx, LAMBDA i : ~Hidden(i))
        /\ (call.idx = <<>> /\ ~call.onclause.is_none) =>
             Range(call.ret) = 0..(Len(call.clauses) - 1)

\* a and the join it is part of are both candidates; a is removed
C15_Witness ==
    /\ JoinFromDone
    /\ call.clauses = <<JAB, TA>>
    /\ call.idx = <<0, 1>>
    /\ call.ret = <<0>>

\* C16: with an ON clause and no candidate the result is every index; with
\* an ON clause and a non-empty list it is never empty; with an ON clause
\* and one clause it is [0]; with no ON clause and no candidate it is empty.
C16_AllIndicesFallback ==
    JoinFromDone =>
        /\ (~call.onclause.is_none /\ call.idx = <<>>) =>
             call.ret = [k \in 1..Len(call.clauses) |-> k - 1]
        /\ (~call.onclause.is_none /\ call.clauses # <<>>) => call.ret # <<>>
        /\ (~call.onclause.is_none /\ Len(call.clauses) = 1) => call.ret = <<0>>
        /\ (call.onclause.is_none /\ call.idx = <<>>) => call.ret = <<>>

\* two clauses, neither resolves against the ON clause, both are returned
C16_Witness ==
    /\ JoinFromDone
    /\ ~call.onclause.is_none
    /\ Len(call.clauses) = 2
    /\ call.idx = <<>>
    /\ call.ret = <<0, 1>>

(***************************************************************************)
(* visit_binary_product.  An expression is a tree: a column, a bound       *)
(* parameter, a scalar subquery, a function of several arguments, or a     *)
(* binary expression <<"binary", operator, left, right>>.                  *)
(***************************************************************************)
MaxBinaryExpressions == 2   \* binary expressions in the expression visited

ColumnClause(n)   == <<"column", n>>
BindParameter(n)  == <<"bindparam", n>>
ScalarSelect(e)   == <<"scalar_select", e>>
Function(clauses) == <<"function", clauses>>
BinaryExpression(op, l, r) == <<"binary", op, l, r>>

is_comparison(op) == op = "eq"
IsScalarSelect(e) == e[1] = "scalar_select"
IsColumnClause(e) == e[1] = "column"
IsComparison(e)   == e[1] = "binary" /\ is_comparison(e[2])

\* element.get_children()
get_children(e) ==
    IF e[1] = "binary" THEN <<e[3], e[4]>>
    ELSE IF e[1] = "function" \/ e[1] = "clauselist" THEN e[2]
    ELSE IF e[1] = "unary" THEN <<e[3]>>
    ELSE <<>>

VisitLeaves ==
    { ColumnClause("a"), ColumnClause("b"), BindParameter("p"),
      ScalarSelect(BinaryExpression("eq", ColumnClause("c"), ColumnClause("d"))),
      Function(<<ColumnClause("e"), ColumnClause("f")>>) }

RECURSIVE ExprsOf(_)
ExprsOf(n) ==
    IF n = 0 THEN VisitLeaves
    ELSE UNION {{BinaryExpression(op, l, r) :
                    op \in {"eq", "add"}, l \in ExprsOf(k), r \in ExprsOf(n - 1 - k)}
                : k \in 0..(n - 1)}
VisitExprs == UNION {ExprsOf(n) : n \in 0..MaxBinaryExpressions}

\* What running the generator visit(element) to its end does, in order: an
\* event is <<"yield", e>> or <<"fn", binary, l, r>>.  The inner loop of a
\* comparison runs visit(element.right) anew for every l that
\* visit(element.left) yields; the generators made by the loop over
\* get_children() after it are never run.
fn_over_right(binary, l, right) ==
    [j \in 1..Len(right) |->
        IF right[j][1] = "fn" THEN right[j] ELSE <<"fn", binary, l, right[j][2]>>]

RECURSIVE fn_product(_, _, _, _)
fn_product(binary, left, right, i) ==
    IF i > Len(left) THEN <<>>
    ELSE (IF left[i][1] = "fn" THEN <<left[i]>>
          ELSE fn_over_right(binary, left[i][2], right))
         \o fn_product(binary, left, right, i + 1)

RECURSIVE visit(_), visit_children(_, _)
visit(element) ==
    IF IsScalarSelect(element) THEN << <<"yield", element>> >>
    ELSE IF IsComparison(element)
    THEN fn_product(element, visit(element[3]), visit(element[4]), 1)
    ELSE (IF IsColumnClause(element) THEN << <<"yield", element>> >> ELSE <<>>)
         \o visit_children(get_children(element), 1)
visit_children(children, i) ==
    IF i > Len(children) THEN <<>>
    ELSE visit(children[i]) \o visit_children(children, i + 1)

\* the invocations of fn made by visit_binary_product(fn, expr), in order
visit_binary_product(expr) == SelectSeq(visit(expr), LAMBDA ev : ev[1] = "fn")

InitVisit ==
    /\ OthersIdle
    /\ \E expr \in VisitExprs :
          call = [fn |-> "visit_binary_product", pc |-> "visit",
                  expr |-> expr, calls |-> <<>>]

\* one invocation of fn
VisitFn ==
    /\ call.pc = "visit" /\ call.fn = "visit_binary_product"
    /\ Len(call.calls) < Len(visit_binary_product(call.expr))
    /\ call' = [call EXCEPT !.calls =
                  Append(@, visit_binary_product(call.expr)[Len(@) + 1])]
    /\ OthersUnchanged

\* the traversal is over
VisitReturn ==
    /\ call.pc = "visit" /\ call.fn = "visit_binary_product"
    /\ Len(call.calls) = Len(visit_binary_product(call.expr))
    /\ call' = [call EXCEPT !.pc = "done"]
    /\ OthersUnchanged

NextVisit == VisitFn \/ VisitReturn

SpecVisit == InitVisit /\ [][NextVisit]_vars /\ WF_vars(NextVisit)

\* the atomic leaves of an operand: columns and scalar subqueries, nothing
\* inside a scalar subquery, nothing beneath a comparison
RECURSIVE AtomicLeaves(_), AtomicLeavesOfAll(_, _)
AtomicLeaves(e) ==
    IF IsScalarSelect(e) THEN <<e>>
    ELSE IF IsComparison(e) THEN <<>>
    ELSE (IF IsColumnClause(e) THEN <<e>> ELSE <<>>)
         \o AtomicLeavesOfAll(get_children(e), 1)
AtomicLeavesOfAll(children, i) ==
    IF i > Len(children) THEN <<>>
    ELSE AtomicLeaves(children[i]) \o AtomicLeavesOfAll(children, i + 1)

LeafProduct(b, ls, rs) ==
    [k \in 1..(Len(ls) * Len(rs)) |->
        <<"fn", b, ls[((k - 1) \div Len(rs)) + 1], rs[((k - 1) % Len(rs)) + 1]>>]

\* one triple for every comparison outside a scalar subquery, wherever it
\* is, and every pair of atomic leaves of its two sides
RECURSIVE Triples(_), TriplesOfAll(_, _)
Triples(e) ==
    IF IsScalarSelect(e) THEN <<>>
    ELSE (IF IsComparison(e)
          THEN LeafProduct(e, AtomicLeaves(e[3]), AtomicLeaves(e[4]))
          ELSE <<>>)
         \o TriplesOfAll(get_children(e), 1)
TriplesOfAll(children, i) ==
    IF i > Len(children) THEN <<>>
    ELSE Triples(children[i]) \o TriplesOfAll(children, i + 1)

Count(seq, x) == Cardinality({k \in 1..Len(seq) : seq[k] = x})

VisitDone == CallDoneOf("visit_binary_product")

\* C17: fn is invoked exactly once for each triple (comparison, atomic leaf
\* of its left side, atomic leaf of its right side) of the expression, and
\* for no other triple.  An expression that occurs twice counts twice.
C17_ExactlyOncePerTriple ==
    VisitDone =>
        \A t \in Range(call.calls) \cup Range(Triples(call.expr)) :
            Count(call.calls, t) = Count(Triples(call.expr), t)

\* C18: every pair of leaves of every comparison outside a scalar subquery,
\* nested in an operand of another comparison or not, is eventually passed
\* to fn.
C18_EveryComparisonEventuallyVisited ==
    <>(\A t \in Range(Triples(call.expr)) : t \in Range(call.calls))

(***************************************************************************)
(* unwrap_order_by.  Besides columns and scalar subqueries an ORDER BY     *)
(* expression holds labels, groupings, unary expressions (with an ordering *)
(* modifier such as DESC, or with none), label references, textual label   *)
(* references, and a list of such expressions.                             *)
(***************************************************************************)
MaxWrap == 2   \* wrappers around a column in an ORDER BY expression

Label(e)          == <<"label", e>>
Grouping(e)       == <<"grouping", e>>
UnaryExpression(modifier, e) == <<"unary", modifier, e>>
_label_reference(e)          == <<"label_reference", e>>
_textual_label_reference(n)  == <<"textual_label_reference", n>>
ClauseList(clauses)          == <<"clauselist", clauses>>

is_ordering_modifier(modifier) == modifier \in {"desc", "asc", "nulls_first", "nulls_last"}
IsOrderingUnary(t) == t[1] = "unary" /\ is_ordering_modifier(t[2])
IsLabel(t)         == t[1] = "label"
\* isinstance(t, ColumnElement): everything here but a list of clauses
IsColumnElementClause(t) == t[1] # "clauselist"

OrderAtoms ==
    { ColumnClause("a"), ColumnClause("b"), ScalarSelect(ColumnClause("c")),
      _textual_label_reference("x") }

RECURSIVE WrappedUpTo(_)
WrappedUpTo(n) ==
    IF n = 0 THEN OrderAtoms
    ELSE OrderAtoms \cup UNION {
            { Label(e), Grouping(e), UnaryExpression("desc", e),
              UnaryExpression("none", e), _label_reference(e) }
            : e \in WrappedUpTo(n - 1)}

\* one expression, or a list of two
OrderByClauses ==
    WrappedUpTo(MaxWrap)
        \cup {ClauseList(<<e1, e2>>) : e1 \in WrappedUpTo(MaxWrap), e2 \in WrappedUpTo(MaxWrap)}

\* mutant: a label of a scalar subquery is unwrapped like any other label
unwrap_step_every_label(t, stack, result) ==
    IF IsColumnElementClause(t) /\ ~IsOrderingUnary(t)
    THEN IF IsLabel(t)
         THEN [stack |-> Append(stack, IF t[2][1] = "grouping" THEN t[2][2] ELSE t[2]),
               result |-> result]
         ELSE IF t[1] = "label_reference"
         THEN [stack |-> Append(stack, t[2]), result |-> result]
         ELSE IF t[1] = "textual_label_reference" \/ t \in Range(result)
         THEN [stack |-> stack, result |-> result]
         ELSE [stack |-> stack, result |-> Append(result, t)]
    ELSE [stack |-> stack \o get_children(t), result |-> result]

\* one turn of the while loop for t = stack.popleft(); cols holds what
\* result holds
unwrap_step(t, stack, result) ==
    IF IsColumnElementClause(t) /\ ~IsOrderingUnary(t)
    THEN IF IsLabel(t) /\ ~IsScalarSelect(t[2])
         THEN [stack |-> Append(stack, IF t[2][1] = "grouping" THEN t[2][2] ELSE t[2]),
               result |-> result]
         ELSE IF t[1] = "label_reference"
         THEN [stack |-> Append(stack, t[2]), result |-> result]
         ELSE IF t[1] = "textual_label_reference" \/ t \in Range(result)
         THEN [stack |-> stack, result |-> result]
         ELSE [stack |-> stack, result |-> Append(result, t)]
    ELSE [stack |-> stack \o get_children(t), result |-> result]

RECURSIVE unwrap_loop(_)
unwrap_loop(st) ==
    IF st.stack = <<>> THEN st.result
    ELSE unwrap_loop(unwrap_step(Head(st.stack), Tail(st.stack), st.result))

unwrap_order_by(clause) == unwrap_loop([stack |-> <<clause>>, result |-> <<>>])

InitUnwrap ==
    /\ OthersIdle
    /\ \E clause \in OrderByClauses :
          call = [fn |-> "unwrap_order_by", pc |-> "call",
                  clause |-> clause, ret |-> <<>>]

UnwrapOrderBy ==
    /\ call.pc = "call" /\ call.fn = "unwrap_order_by"
    /\ call' = [call EXCEPT !.pc = "done", !.ret = unwrap_order_by(call.clause)]
    /\ OthersUnchanged

NextUnwrap == UnwrapOrderBy

SpecUnwrap == InitUnwrap /\ [][NextUnwrap]_vars

\* what a wrapper wraps: the elements of a list, the operand of an ordering
\* modifier, what a label (not of a scalar subquery) or a label reference
\* stands for, a grouping directly under a label being skipped
Unwrapped(t) ==
    IF t[1] = "clauselist" THEN t[2]
    ELSE IF IsOrderingUnary(t) \/ t[1] = "label_reference" THEN <<t[IF t[1] = "unary" THEN 3 ELSE 2]>>
    ELSE IF IsLabel(t) /\ ~IsScalarSelect(t[2])
    THEN <<IF t[2][1] = "grouping" THEN t[2][2] ELSE t[2]>>
    ELSE <<>>

IsWrapper(t) ==
    \/ t[1] = "clauselist" \/ IsOrderingUnary(t) \/ t[1] = "label_reference"
    \/ IsLabel(t) /\ ~IsScalarSelect(t[2])

RECURSIVE UnwrappedOfAll(_, _)
UnwrappedOfAll(level, i) ==
    IF i > Len(level) THEN <<>>
    ELSE Unwrapped(level[i]) \o UnwrappedOfAll(level, i + 1)

\* the expressions met, level of wrapping by level of wrapping
RECURSIVE Encountered(_)
Encountered(level) ==
    IF level = <<>> THEN <<>>
    ELSE level \o Encountered(UnwrappedOfAll(level, 1))

\* the first occurrences in a sequence, in order
RECURSIVE FirstOccurrences(_)
FirstOccurrences(seq) ==
    IF seq = <<>> THEN <<>>
    ELSE IF seq[Len(seq)] \in Range(SubSeq(seq, 1, Len(seq) - 1))
    THEN FirstOccurrences(SubSeq(seq, 1, Len(seq) - 1))
    ELSE Append(FirstOccurrences(SubSeq(seq, 1, Len(seq) - 1)), seq[Len(seq)])

UnwrapDone == CallDoneOf("unwrap_order_by")

\* C19: the result of unwrap_order_by has no duplicate; it holds the
\* underlying expressions of the input in the order they are first met;
\* none of them is an ordering-modifier unary, a label reference, a textual
\* label reference, or a label of anything but a scalar subquery;
\* column.desc() and label(column).desc() both give [column].
C19_UnwrappedNoDuplicates ==
    UnwrapDone =>
        /\ \A i, j \in 1..Len(call.ret) : call.ret[i] = call.ret[j] => i = j
        /\ call.ret = FirstOccurrences(SelectSeq(Encountered(<<call.clause>>),
               LAMBDA t : ~IsWrapper(t) /\ t[1] # "textual_label_reference"))
        /\ \A i \in 1..Len(call.ret) :
              /\ ~IsOrderingUnary(call.ret[i])
              /\ call.ret[i][1] \notin {"label_reference", "textual_label_reference"}
              /\ IsLabel(call.ret[i]) => IsScalarSelect(call.ret[i][2])
        /\ call.clause \in { UnaryExpression("desc", ColumnClause("a")),
                             UnaryExpression("desc", Label(ColumnClause("a"))) }
              => call.ret = <<ColumnClause("a")>>

\* a labelled scalar subquery is kept with its label, the label of a column
\* is not
C19_Witness ==
    /\ UnwrapDone
    /\ call.clause = ClauseList(<<UnaryExpression("desc", Label(ColumnClause("a"))),
                                  Label(ScalarSelect(ColumnClause("c")))>>)
    /\ call.ret = <<Label(ScalarSelect(ColumnClause("c"))), ColumnClause("a")>>

(***************************************************************************)
(* tables_from_leftmost, surface_selectables, surface_selectables_only as  *)
(* generators: each operator gives what the generator yields, in order,    *)
(* and the caller takes the elements one at a time.  Besides tables,       *)
(* aliases, joins and groupings a clause may be a SELECT or a column,      *)
(* which has an owning table or none.                                      *)
(***************************************************************************)
MaxJoinNodes == 2   \* joins and groupings in the clause walked over

NoTable == <<"none">>
ColumnOf(table) == <<"column_clause", table>>
SelectS == <<"select", "s">>
SurfaceLeaves == {TA, TB, AliasA, SelectS, ColumnOf(TC), ColumnOf(NoTable)}

RECURSIVE ClausesOf(_)
ClausesOf(n) ==
    IF n = 0 THEN SurfaceLeaves
    ELSE {FromGrouping(e) : e \in ClausesOf(n - 1)}
         \cup UNION {{Join(l, r) : l \in ClausesOf(k), r \in ClausesOf(n - 1 - k)}
                     : k \in 0..(n - 1)}
SurfaceClauses == UNION {ClausesOf(n) : n \in 0..MaxJoinNodes}

RECURSIVE tables_from_leftmost(_)
\* mutant: the right side of a join first
tables_from_rightmost(clause) ==
    IF IsJoin(clause)
    THEN tables_from_leftmost(clause[3]) \o tables_from_leftmost(clause[2])
    ELSE IF IsFromGrouping(clause) THEN tables_from_leftmost(clause[2])
    ELSE <<clause>>

tables_from_leftmost(clause) ==
    IF IsJoin(clause)
    THEN tables_from_leftmost(clause[2]) \o tables_from_leftmost(clause[3])
    ELSE IF IsFromGrouping(clause) THEN tables_from_leftmost(clause[2])
    ELSE <<clause>>

\* what one turn of the loop of surface_selectables_only yields for elem: a
\* table or an alias at the first test, and again whatever reaches the last
\* branch; a column with no table
only_yields(elem) ==
    (IF IsTableClause(elem) \/ IsAlias(elem) THEN <<elem>> ELSE <<>>)
    \o (IF IsJoin(elem) \/ IsFromGrouping(elem) THEN <<>>
        ELSE IF elem[1] = "column_clause"
        THEN (IF elem[2] # NoTable THEN <<>> ELSE <<elem>>)
        ELSE IF elem # NoTable THEN <<elem>> ELSE <<>>)

\* mutant: an alias is descended into
only_pushes_into_alias(elem) ==
    IF IsJoin(elem) THEN <<elem[2], elem[3]>>
    ELSE IF IsFromGrouping(elem) \/ IsAlias(elem) THEN <<elem[2]>>
    ELSE IF elem[1] = "column_clause" /\ elem[2] # NoTable THEN <<elem[2]>>
    ELSE <<>>

\* and what it puts on the stack
only_pushes(elem) ==
    IF IsJoin(elem) THEN <<elem[2], elem[3]>>
    ELSE IF IsFromGrouping(elem) THEN <<elem[2]>>
    ELSE IF elem[1] = "column_clause" /\ elem[2] # NoTable THEN <<elem[2]>>
    ELSE <<>>

RECURSIVE surface_selectables_only_from(_)
surface_selectables_only_from(stack) ==
    IF stack = <<>> THEN <<>>
    ELSE only_yields(stack[Len(stack)])
         \o surface_selectables_only_from(
                SubSeq(stack, 1, Len(stack) - 1) \o only_pushes(stack[Len(stack)]))
surface_selectables_only(clause) == surface_selectables_only_from(<<clause>>)

Yields(fn, clause) ==
    IF fn = "tables_from_leftmost" THEN tables_from_leftmost(clause)
    ELSE IF fn = "surface_selectables" THEN surface_selectables(clause)
    ELSE surface_selectables_only(clause)

InitSurface ==
    /\ OthersIdle
    /\ \E clause \in SurfaceClauses,
          fn \in {"tables_from_leftmost", "surface_selectables",
                  "surface_selectables_only"} :
          call = [fn |-> fn, pc |-> "iter", clause |-> clause, yielded |-> <<>>]

\* the caller takes the next element of the generator
NextOf(fn) ==
    /\ call.pc = "iter" /\ call.fn = fn
    /\ Len(call.yielded) < Len(Yields(fn, call.clause))
    /\ call' = [call EXCEPT !.yielded =
                  Append(@, Yields(fn, call.clause)[Len(@) + 1])]
    /\ OthersUnchanged

TablesFromLeftmost     == NextOf("tables_from_leftmost")
SurfaceSelectables     == NextOf("surface_selectables")
SurfaceSelectablesOnly == NextOf("surface_selectables_only")

\* the generator is exhausted
StopIteration ==
    /\ call.pc = "iter"
    /\ Len(call.yielded) = Len(Yields(call.fn, call.clause))
    /\ call' = [call EXCEPT !.pc = "done"]
    /\ OthersUnchanged

NextSurface ==
    \/ TablesFromLeftmost
    \/ SurfaceSelectables
    \/ SurfaceSelectablesOnly
    \/ StopIteration

SpecSurface == InitSurface /\ [][NextSurface]_vars /\ WF_vars(NextSurface)

\* the joins of a tree
RECURSIVE JoinsOf(_)
JoinsOf(clause) ==
    IF IsJoin(clause) THEN {clause} \cup JoinsOf(clause[2]) \cup JoinsOf(clause[3])
    ELSE IF IsFromGrouping(clause) THEN JoinsOf(clause[2])
    ELSE {}

\* seq has part at positions i, i + 1, ...
PartAt(seq, part, i) ==
    /\ i + Len(part) - 1 <= Len(seq)
    /\ SubSeq(seq, i, i + Len(part) - 1) = part

\* in seq everything of first comes before anything of second
Before(seq, first, second) ==
    \E i, k \in 1..(Len(seq) + 1) :
        PartAt(seq, first, i) /\ PartAt(seq, second, k) /\ i + Len(first) <= k

\* C20 as stated: once any of the three generators is exhausted, for every
\* join of the tree what was yielded from its left side came before what
\* was yielded from its right side.
C20_LeftBeforeRight ==
    call.pc = "done" =>
        \A j \in JoinsOf(call.clause) :
            Before(call.yielded, Yields(call.fn, j[2]), Yields(call.fn, j[3]))

\* C20, amended: tables_from_leftmost yields, for every join, what its left
\* side gives and then what its right side gives, and yields no join and no
\* grouping; surface_selectables and surface_selectables_only yield, for
\* every join, what its right side gives and then what its left side gives;
\* surface_selectables yields each join and each grouping itself before
\* what it holds.
C20_LeftmostLeftFirstSurfaceRightFirst ==
    call.pc = "done" =>
        /\ \A j \in JoinsOf(call.clause) :
              IF call.fn = "tables_from_leftmost"
              THEN \E i \in 1..Len(call.yielded) :
                      PartAt(call.yielded,
                             Yields(call.fn, j[2]) \o Yields(call.fn, j[3]), i)
              ELSE \E i \in 1..Len(call.yielded) :
                      PartAt(call.yielded,
                             (IF call.fn = "surface_selectables" THEN <<j>> ELSE <<>>)
                                 \o Yields(call.fn, j[3]) \o Yields(call.fn, j[2]), i)
        /\ call.fn = "tables_from_leftmost" =>
              \A i \in 1..Len(call.yielded) :
                  ~IsJoin(call.yielded[i]) /\ ~IsFromGrouping(call.yielded[i])
        /\ (call.fn = "surface_selectables" /\ IsFromGrouping(call.clause)) =>
              call.yielded = <<call.clause>> \o Yields(call.fn, call.clause[2])

\* surface_selectables has walked a.join(b): the join, then b, then a
C20_Witness ==
    /\ call.pc = "done"
    /\ call.fn = "surface_selectables"
    /\ call.clause = JAB
    /\ call.yielded = <<JAB, TB, TA>>

\* the leaves of a join tree, and the tree without its groupings
RECURSIVE LeafSet(_)
LeafSet(clause) ==
    IF IsJoin(clause) THEN LeafSet(clause[2]) \cup LeafSet(clause[3])
    ELSE IF IsFromGrouping(clause) THEN LeafSet(clause[2])
    ELSE {clause}

RECURSIVE WithoutGroupings(_)
WithoutGroupings(clause) ==
    IF IsJoin(clause) THEN Join(WithoutGroupings(clause[2]), WithoutGroupings(clause[3]))
    ELSE IF IsFromGrouping(clause) THEN WithoutGroupings(clause[2])
    ELSE clause

TablesAndAliasesOnly(clause) ==
    \A leaf \in LeafSet(clause) : IsTableClause(leaf) \/ IsAlias(leaf)

OnlyDone == call.pc = "done" /\ call.fn = "surface_selectables_only"

\* C21: for a join tree whose leaves are tables and aliases, the set of
\* what surface_selectables_only yields is the set of those leaves (an alias
\* as itself), the same set as for the tree without its groupings;
\* Join(Alias(a), Join(a, b)) gives {Alias(a), a, b}.
C21_YieldsTheLeaves ==
    (OnlyDone /\ TablesAndAliasesOnly(call.clause)) =>
        /\ Range(call.yielded) = LeafSet(call.clause)
        /\ Range(call.yielded) =
              Range(surface_selectables_only(WithoutGroupings(call.clause)))
        /\ call.clause = Join(AliasA, JAB) => Range(call.yielded) = {AliasA, TA, TB}

\* a grouped join of an alias and a table has been walked
C21_Witness ==
    /\ OnlyDone
    /\ call.clause = FromGrouping(Join(AliasA, TB))
    /\ Range(call.yielded) = {AliasA, TB}

\* C22: every element surface_selectables_only yields is a table, an alias
\* or a column with no owning table, never a join, a grouping or a
\* selectable of another kind; a column with an owning table gives that
\* table in its place.
C22_OnlyTablesAndAliases ==
    OnlyDone =>
        /\ \A i \in 1..Len(call.yielded) :
              \/ IsTableClause(call.yielded[i])
              \/ IsAlias(call.yielded[i])
              \/ call.yielded[i] = ColumnOf(NoTable)
        /\ \A leaf \in LeafSet(call.clause) :
              (leaf[1] = "column_clause" /\ leaf[2] # NoTable) =>
                  /\ leaf \notin Range(call.yielded)
                  /\ leaf[2] \in Range(call.yielded)

\* C25: for a join tree in which every table or alias leaf occurs once,
\* surface_selectables_only yields no element twice.
C25_NoElementTwice ==
    (OnlyDone /\ TablesAndAliasesOnly(call.clause)
        /\ Len(tables_from_leftmost(call.clause)) = Cardinality(LeafSet(call.clause))) =>
        \A i, k \in 1..Len(call.yielded) :
            call.yielded[i] = call.yielded[k] => i = k

(***************************************************************************)
(* _make_slice.  A limit or offset clause, and a slice bound, is None, a   *)
(* plain integer, a bound parameter that holds an integer (what            *)
(* _offset_or_limit_clause makes of an integer), or an SQL expression; an  *)
(* SQL expression to which integers were added is written with their sum.  *)
(***************************************************************************)
MaxSlice == 3   \* largest integer in a limit, an offset or a slice bound

NoneValue     == [kind |-> "none", value |-> 0]
IntValue(n)   == [kind |-> "int", value |-> n]
LimitParam(n) == [kind |-> "param", value |-> n]
SqlExpr(n)    == [kind |-> "expr", value |-> n]

\* coercion to an "offset or limit" clause: an integer becomes a bound
\* parameter, an expression is passed through
_offset_or_limit_clause(element) ==
    IF element.kind = "int" THEN LimitParam(element.value) ELSE element

\* util.asint of _limit_offset_value where the clause has one
_offset_or_limit_clause_asint_if_possible(clause) ==
    IF clause.kind = "none" THEN NoneValue
    ELSE IF clause.kind = "param" THEN IntValue(clause.value)
    ELSE clause

\* offset_clause + start; on an SQL expression the sum is an SQL expression
offset_add(offset_clause, start) ==
    [offset_clause EXCEPT !.value = @ + start.value]

\* "if offset_clause == 0": true of the integer 0 only
offset_is_zero(offset_clause) ==
    offset_clause.kind = "int" /\ offset_clause.value = 0

offset_or_zero(offset_clause) ==
    IF _offset_or_limit_clause_asint_if_possible(offset_clause).kind = "none"
    THEN IntValue(0)
    ELSE _offset_or_limit_clause_asint_if_possible(offset_clause)

\* mutant: an offset of 0 is kept as a clause
offset_from_start_keeps_zero(offset_clause, start) ==
    _offset_or_limit_clause(
        IF start.value # 0 THEN offset_add(offset_or_zero(offset_clause), start)
        ELSE offset_or_zero(offset_clause))

\* the offset computed when start is given
offset_from_start(offset_clause, start) ==
    IF offset_is_zero(IF start.value # 0
                      THEN offset_add(offset_or_zero(offset_clause), start)
                      ELSE offset_or_zero(offset_clause))
    THEN NoneValue
    ELSE _offset_or_limit_clause(
             IF start.value # 0 THEN offset_add(offset_or_zero(offset_clause), start)
             ELSE offset_or_zero(offset_clause))

_make_slice(limit_clause, offset_clause, start, stop) ==
    IF start.kind # "none" /\ stop.kind # "none"
    THEN [limit  |-> _offset_or_limit_clause(IntValue(stop.value - start.value)),
          offset |-> offset_from_start(offset_clause, start)]
    ELSE IF start.kind = "none" /\ stop.kind # "none"
    THEN [limit  |-> _offset_or_limit_clause(stop), offset |-> offset_clause]
    ELSE IF start.kind # "none" /\ stop.kind = "none"
    THEN [limit  |-> limit_clause, offset |-> offset_from_start(offset_clause, start)]
    ELSE [limit  |-> limit_clause, offset |-> offset_clause]

SliceBounds ==
    {NoneValue} \cup {IntValue(n) : n \in ((0 - MaxSlice)..MaxSlice) \cup {5, 10}}
LimitClauses ==
    {NoneValue} \cup {IntValue(n) : n \in 0..MaxSlice}
        \cup {LimitParam(n) : n \in 0..MaxSlice} \cup {SqlExpr(0)}

InitSlice ==
    /\ OthersIdle
    /\ \E limit_clause \in LimitClauses, offset_clause \in LimitClauses,
          start \in SliceBounds, stop \in SliceBounds :
          call = [fn |-> "_make_slice", pc |-> "call",
                  limit_clause |-> limit_clause, offset_clause |-> offset_clause,
                  start |-> start, stop |-> stop,
                  ret |-> [limit |-> NoneValue, offset |-> NoneValue]]

MakeSlice ==
    /\ call.pc = "call" /\ call.fn = "_make_slice"
    /\ call' = [call EXCEPT !.pc = "done", !.ret =
                  _make_slice(call.limit_clause, call.offset_clause,
                              call.start, call.stop)]
    /\ OthersUnchanged

NextSlice == MakeSlice

SpecSlice == InitSlice /\ [][NextSlice]_vars

\* the integer a clause stands for, or None
IntOf(n) == [none |-> FALSE, value |-> n]
NoInt   == [none |-> TRUE, value |-> 0]
AsInt(clause) == IF clause.kind = "none" THEN NoInt ELSE IntOf(clause.value)

\* (O0 or 0) + start, None when it is 0
ArithmeticOffset ==
    IF call.offset_clause.value + call.start.value = 0
    THEN NoInt
    ELSE IntOf(call.offset_clause.value + call.start.value)

\* C23: for a base limit and a base offset that are integers or absent,
\* _make_slice returns (stop - start, O) when both bounds are given,
\* (stop, O0) when only stop is, (L0, O) when only start is, (L0, O0) when
\* neither is, O being (O0 or 0) + start, None when that is 0;
\* (None, None, 2, 5) gives (3, 2) and (None, None, None, 10) gives
\* (10, None).
C23_SliceArithmetic ==
    (CallDoneOf("_make_slice") /\ call.limit_clause.kind # "expr"
        /\ call.offset_clause.kind # "expr") =>
        /\ AsInt(call.ret.limit) =
              IF call.stop.kind # "none"
              THEN IntOf(call.stop.value - call.start.value)
              ELSE AsInt(call.limit_clause)
        /\ AsInt(call.ret.offset) =
              IF call.start.kind # "none" THEN ArithmeticOffset
              ELSE AsInt(call.offset_clause)
        /\ (call.limit_clause = NoneValue /\ call.offset_clause = NoneValue
              /\ call.start = IntValue(2) /\ call.stop = IntValue(5)) =>
              (AsInt(call.ret.limit) = IntOf(3) /\ AsInt(call.ret.offset) = IntOf(2))
        /\ (call.limit_clause = NoneValue /\ call.offset_clause = NoneValue
              /\ call.start = NoneValue /\ call.stop = IntValue(10)) =>
              (AsInt(call.ret.limit) = IntOf(10) /\ AsInt(call.ret.offset) = NoInt)

\* a slice [2:5] of a query that already has offset 1: limit 3, offset 3
C23_Witness ==
    /\ CallDoneOf("_make_slice")
    /\ call.offset_clause = LimitParam(1)
    /\ call.start = IntValue(2) /\ call.stop = IntValue(5)
    /\ call.ret = [limit |-> LimitParam(3), offset |-> LimitParam(3)]

\* two input columns are directly related: they share lineage, one has a
\* foreign key to (the lineage of) the other, or an equality of a clause
\* has them on its two sides
Related(a, b) ==
    \/ shares_lineage(a, b)
    \/ \E fk_col \in chain_foreign_keys(rc.foreign_keys, a) \ FkErrors :
          shares_lineage(fk_col, b)
    \/ \E i \in 1..Len(rc.clauses) : \E k \in 1..Len(rc.clauses[i].binaries) :
          /\ rc.clauses[i].binaries[k].operator = operators_eq
          /\ shares_lineage(a, rc.clauses[i].binaries[k].left)
          /\ shares_lineage(b, rc.clauses[i].binaries[k].right)

\* the group of equivalent columns of the input that holds the columns of S
RECURSIVE EquivalentGroup(_, _)
EquivalentGroup(S, n) ==
    IF n = 0 THEN S
    ELSE EquivalentGroup(
            S \cup {b \in NonText : \E a \in S : Related(a, b) \/ Related(b, a)},
            n - 1)

\* C24: every column reduce_columns leaves out has an equivalent column,
\* by foreign keys or by the equalities of the clauses, in the result: no
\* group of equivalent columns is left out whole.
C24_GroupKeepsRepresentative ==
    Returned =>
        \A col \in NonText \ Range(rc.ret.result) :
            EquivalentGroup({col}, Cardinality(NonText)) \cap Range(rc.ret.result) # {}

====
